---- MODULE Spec2Model ----
(***************************************************************************)
(* Verification model of the e-discovery platform: bates numbering and     *)
(* production export (client/src/lib/documentProcessing, ExportModal),     *)
(* the redaction ledger and production links (server/routes.ts) and the    *)
(* viewer's text redaction (DocumentViewer.processContent).                *)
(*                                                                         *)
(* Strings are sequences of one-character strings, so that padding,        *)
(* slicing, searching and replacing are computed character by character.   *)
(***************************************************************************)
EXTENDS Integers, Sequences, FiniteSets, TLC

VARIABLES
    \* --- generateBatesNumbers applied to drawn arguments
    gbArgs, gbResult,
    \* --- ExportModal state, its documents prop, and the Export page's config
    batesPrefix, batesStartNumber, loadFileFormat, documentsProp,
    exportConfig, prevExportConfig, editedSince, rerun,
    \* --- server: documents, redactions table, in-flight POST /api/redactions
    documents, redactions, nextRedactionId, inflight, lastResponse,
    \* --- server: production sets and production_documents table, clock
    productionSets, productionDocuments, now, uniquePairIndex, prodResponse,
    \* --- DocumentViewer props and rendered content
    viewContent, viewRedactions, processedContent,
    \* --- server: one POST /api/documents/upload request and its outcome
    upReq, upResult,
    \* --- client detectPII: the content scanned, the position of the call,
    \* what the AI endpoint did, and the candidates returned
    piContent, piResult, piPc, piAi,
    \* --- redaction page: the useRedaction state, the Apply runs in flight,
    \* the submissions the server persisted, the last autoPIIDetection call
    pgMode, pgPending, pgAdded, pgApplies, pgRuns, pgStored, pgAuto, pgEvent

batesVars  == <<gbArgs, gbResult>>
exportVars == <<batesPrefix, batesStartNumber, loadFileFormat, documentsProp,
                exportConfig, prevExportConfig, editedSince, rerun>>
ledgerVars == <<documents, redactions, nextRedactionId, inflight, lastResponse>>
prodVars   == <<productionSets, productionDocuments, now, uniquePairIndex,
                prodResponse>>
viewVars   == <<viewContent, viewRedactions, processedContent>>
uploadVars == <<upReq, upResult>>
piiVars    == <<piContent, piResult, piPc, piAi>>
pageVars   == <<pgMode, pgPending, pgAdded, pgApplies, pgRuns, pgStored,
                pgAuto, pgEvent>>
vars == <<batesVars, exportVars, ledgerVars, prodVars, viewVars, uploadVars,
          piiVars, pageVars>>

(***************************************************************************)
(* Strings                                                                 *)
(***************************************************************************)
Digits == <<"0", "1", "2", "3", "4", "5", "6", "7", "8", "9">>

RECURSIVE NatToString(_)
NatToString(n) ==
    IF n < 10 THEN <<Digits[n + 1]>>
    ELSE NatToString(n \div 10) \o <<Digits[(n % 10) + 1]>>

\* Number.prototype.toString(): decimal digits, a leading "-" when negative
NumberToString(n) ==
    IF n < 0 THEN <<"-">> \o NatToString(0 - n) ELSE NatToString(n)

\* String.prototype.padStart(targetLength, fill) for a one-character fill
padStart(s, targetLength, fill) ==
    IF Len(s) >= targetLength THEN s
    ELSE [k \in 1..(targetLength - Len(s)) |-> fill] \o s

\* String.prototype.slice(-n): the last n characters (the whole string if shorter)
sliceLast(s, n) ==
    IF Len(s) <= n THEN s ELSE SubSeq(s, Len(s) - n + 1, Len(s))

RECURSIVE Concat(_)
Concat(ss) == IF ss = <<>> THEN <<>> ELSE Head(ss) \o Concat(Tail(ss))

(***************************************************************************)
(* Bates numbers                                                           *)
(***************************************************************************)
paddedLength == 6

\* a plausible slip: fixed-width numbering that keeps only the last 6 digits
generateBatesNumbers_fixedWidth(prefix, startNumber, count) ==
    [k \in 1..count |->
        prefix \o sliceLast(padStart(NumberToString(startNumber + (k - 1)),
                                     paddedLength, "0"), paddedLength)]

generateBatesNumbers(prefix, startNumber, count) ==
    [k \in 1..count |->
        prefix \o padStart(NumberToString(startNumber + (k - 1)),
                           paddedLength, "0")]

createBatesNumber(prefix, number, padding) ==
    prefix \o padStart(NumberToString(number), padding, "0")

\* decimal reading of a digit string, and digit-string test (used to read
\* the numeric suffix of a bates number back)
DigitValue(c) == CHOOSE d \in 0..9 : Digits[d + 1] = c
IsDigits(s) == \A k \in 1..Len(s) : \E d \in 0..9 : Digits[d + 1] = s[k]

RECURSIVE ParseDecimal(_)
ParseDecimal(s) ==
    IF s = <<>> THEN 0
    ELSE 10 * ParseDecimal(SubSeq(s, 1, Len(s) - 1)) + DigitValue(s[Len(s)])

RECURSIVE DecimalWidth(_)
DecimalWidth(n) == IF n < 10 THEN 1 ELSE 1 + DecimalWidth(n \div 10)

(***************************************************************************)
(* Bounds and input sets                                                   *)
(***************************************************************************)
MaxCount == 3

Prefixes == { <<>>, <<"X", "_">>, <<"A", "1">> }
StartNumbers == {0, 1, 99, 100, 999998, 999999, 1000000, 1234567}

NoResult == [defined |-> FALSE, value |-> <<>>]
Result(v) == [defined |-> TRUE, value |-> v]

(***************************************************************************)
(* Idle values: each specification below drives one component and leaves   *)
(* the others at these values.                                             *)
(***************************************************************************)
IdleBates ==
    /\ gbArgs = [prefix |-> <<>>, startNumber |-> 0, count |-> 0]
    /\ gbResult = NoResult

IdleExport ==
    /\ batesPrefix = <<>>
    /\ batesStartNumber = 1
    /\ loadFileFormat = "DAT"
    /\ documentsProp = <<>>
    /\ exportConfig = NoResult
    /\ prevExportConfig = NoResult
    /\ editedSince = FALSE
    /\ rerun = FALSE

IdleLedger ==
    /\ documents = <<>>
    /\ redactions = {}
    /\ nextRedactionId = 1
    /\ inflight = <<>>
    /\ lastResponse = NoResult

IdleProd ==
    /\ productionSets = <<>>
    /\ productionDocuments = <<>>
    /\ now = 0
    /\ uniquePairIndex = FALSE
    /\ prodResponse = NoResult

IdleView ==
    /\ viewContent = <<>>
    /\ viewRedactions = <<>>
    /\ processedContent = NoResult

IdleUpload ==
    /\ upReq = NoResult
    /\ upResult = NoResult

NotCalled == [kind |-> "not called", redactions |-> NoResult]

IdlePii ==
    /\ piContent = <<>>
    /\ piResult = NoResult
    /\ piPc = "idle"
    /\ piAi = NotCalled

\* useState of useRedaction, nothing drawn, applied or detected
IdlePage ==
    /\ pgMode = FALSE
    /\ pgPending = <<>>
    /\ pgAdded = 0
    /\ pgApplies = 0
    /\ pgRuns = <<>>
    /\ pgStored = <<>>
    /\ pgAuto = NoResult
    /\ pgEvent = "loaded"

(***************************************************************************)
(* SpecBates: generateBatesNumbers as a function of its arguments          *)
(***************************************************************************)
InitBates ==
    /\ gbArgs \in [prefix : Prefixes, startNumber : StartNumbers,
                   count : 0..MaxCount]
    /\ gbResult = NoResult
    /\ IdleExport /\ IdleLedger /\ IdleProd /\ IdleView
    /\ IdleUpload /\ IdlePii /\ IdlePage

CallGenerateBatesNumbers ==
    /\ ~gbResult.defined
    /\ gbResult' = Result(generateBatesNumbers(gbArgs.prefix,
                                               gbArgs.startNumber, gbArgs.count))
    /\ UNCHANGED <<gbArgs, exportVars, ledgerVars, prodVars, viewVars,
                 uploadVars, piiVars, pageVars>>

NextBates == CallGenerateBatesNumbers

SpecBates == InitBates /\ [][NextBates]_vars

BatesSuffix(str, prefix) == SubSeq(str, Len(prefix) + 1, Len(str))

\* C1: generateBatesNumbers(prefix, start, count) with start >= 0, count >= 0
\* returns exactly count strings; the i-th (from 0) is prefix followed by the
\* decimal form of start+i, zero-padded to 6 digits and wider (never
\* truncated) from 1000000 on; the numeric suffixes increase by 1.
C1_BatesNumbersContract ==
    gbResult.defined =>
        LET p == gbArgs.prefix
            s == gbArgs.startNumber
            c == gbArgs.count
            out == gbResult.value
        IN  /\ Len(out) = c
            /\ \A i \in 0..(c - 1) :
                  LET str == out[i + 1]
                      suffix == BatesSuffix(str, p)
                  IN  /\ Len(str) >= Len(p) + 6
                      /\ SubSeq(str, 1, Len(p)) = p
                      /\ IsDigits(suffix)
                      /\ ParseDecimal(suffix) = s + i
                      /\ Len(suffix) = IF s + i >= 1000000
                                        THEN DecimalWidth(s + i) ELSE 6
                      /\ str = createBatesNumber(p, s + i, paddedLength)
            /\ \A i \in 1..(c - 1) :
                  ParseDecimal(BatesSuffix(out[i + 1], p))
                      = ParseDecimal(BatesSuffix(out[i], p)) + 1

\* a run of three numbers that crosses from 6 to 7 digits
C1_Witness ==
    /\ gbResult.defined
    /\ gbArgs.count = 3
    /\ gbArgs.startNumber < 1000000
    /\ gbArgs.startNumber + 2 >= 1000000
    /\ Len(gbResult.value[3]) = Len(gbArgs.prefix) + 7

(***************************************************************************)
(* Load files                                                              *)
(***************************************************************************)
\* an optional string field (custodian: text column without notNull)
Null == [isNull |-> TRUE, value |-> <<>>]
Some(str) == [isNull |-> FALSE, value |-> str]

\* `${x || ''}` for an optional string: null and '' both give ''
OrEmpty(opt) == IF opt.isNull \/ opt.value = <<>> THEN <<>> ELSE opt.value

\* `${batesNumbers[index] || ''}`: a missing entry gives ''
BatesAt(batesNumbers, index) ==
    IF index \in 1..Len(batesNumbers) THEN batesNumbers[index] ELSE <<>>

DatHeader ==
    <<"þ", "D", "O", "C", "I", "D", "þ", "þ", "B", "A", "T", "E", "S", "þ",
      "þ", "T", "I", "T", "L", "E", "þ", "þ", "C", "U", "S", "T", "O", "D",
      "I", "A", "N", "þ", "þ", "F", "I", "L", "E", "T", "Y", "P", "E", "þ",
      "\n">>

CsvHeader ==
    <<"I", "D", ",", "B", "A", "T", "E", "S", ",", "T", "I", "T", "L", "E",
      ",", "C", "U", "S", "T", "O", "D", "I", "A", "N", ",", "F", "I", "L",
      "E", "T", "Y", "P", "E", "\n">>

\* a plausible slip: the formats the dialog offers and the code does not
\* name (DII, XML) get no header, as OPT does
LoadFileHeader_namedOnly(format) ==
    IF format = "DAT" THEN DatHeader
    ELSE IF format = "CSV" THEN CsvHeader
    ELSE <<>>

LoadFileHeader(format) ==
    IF format = "DAT" THEN DatHeader
    ELSE IF format = "OPT" THEN <<>>
    ELSE CsvHeader

\* `${x}` for an optional string: null is written as the word null
TemplateString(opt) ==
    IF opt.isNull THEN <<"n", "u", "l", "l">> ELSE opt.value

\* a plausible slip: the custodian is interpolated without `|| ''`
LoadFileRow_rawCustodian(format, doc, bates) ==
    IF format = "DAT" THEN
        <<"þ">> \o NumberToString(doc.id) \o <<"þ", "þ">> \o bates
            \o <<"þ", "þ">> \o doc.title \o <<"þ", "þ">>
            \o TemplateString(doc.custodian) \o <<"þ", "þ">> \o doc.fileType
            \o <<"þ", "\n">>
    ELSE IF format = "OPT" THEN
        bates \o <<",">> \o doc.filePath
            \o <<",", "Y", ",", ",", ",", ",", ",", "\n">>
    ELSE
        NumberToString(doc.id) \o <<",">> \o bates \o <<",">> \o doc.title
            \o <<",">> \o TemplateString(doc.custodian) \o <<",">>
            \o doc.fileType \o <<"\n">>

\* the text one forEach iteration appends for document doc
LoadFileRow(format, doc, bates) ==
    IF format = "DAT" THEN
        <<"þ">> \o NumberToString(doc.id) \o <<"þ", "þ">> \o bates
            \o <<"þ", "þ">> \o doc.title \o <<"þ", "þ">>
            \o OrEmpty(doc.custodian) \o <<"þ", "þ">> \o doc.fileType
            \o <<"þ", "\n">>
    ELSE IF format = "OPT" THEN
        bates \o <<",">> \o doc.filePath
            \o <<",", "Y", ",", ",", ",", ",", ",", "\n">>
    ELSE
        NumberToString(doc.id) \o <<",">> \o bates \o <<",">> \o doc.title
            \o <<",">> \o OrEmpty(doc.custodian) \o <<",">> \o doc.fileType
            \o <<"\n">>

\* a plausible slip: rows read the bates list from the other end
generateLoadFile_reversed(format, docs, batesNumbers) ==
    LoadFileHeader(format)
        \o Concat([k \in 1..Len(docs) |->
                     LoadFileRow(format, docs[k],
                                 BatesAt(batesNumbers, Len(docs) + 1 - k))])

generateLoadFile(format, docs, batesNumbers) ==
    LoadFileHeader(format)
        \o Concat([k \in 1..Len(docs) |->
                     LoadFileRow(format, docs[k], BatesAt(batesNumbers, k))])

(***************************************************************************)
(* SpecExport: the export dialog and the Export page                       *)
(***************************************************************************)
MaxDocs == 3

DocPool ==
    { [id |-> 1, title |-> <<"a">>, custodian |-> Null,
       fileType |-> <<"p", "d", "f">>, filePath |-> <<"/", "1">>],
      [id |-> 12, title |-> <<"b", ",">>, custodian |-> Some(<<"c">>),
       fileType |-> <<"t", "x", "t">>, filePath |-> <<"/", "2">>],
      [id |-> 3, title |-> <<"c", "\n", "d">>, custodian |-> Some(<<>>),
       fileType |-> <<"d", "o", "c">>, filePath |-> <<"/", "3">>] }

\* getSelectedDocuments(): ordered lists of distinct documents
DocLists ==
    UNION { { l \in [1..n -> DocPool] :
                \A i, j \in 1..n : i # j => l[i] # l[j] } : n \in 0..MaxDocs }

DefaultBatesPrefix == <<"J", "O", "H", "N", "S", "O", "N", "_">>
ExportPrefixes == { DefaultBatesPrefix, <<"X", "_">> }
LoadFileFormats == {"DAT", "DII", "OPT", "XML"}

\* what the start-number input can hold: text that parseInt reads as a
\* number, or that it does not read at all (NaN)
TypedNumbers ==
    { [isNaN |-> TRUE, value |-> 0], [isNaN |-> FALSE, value |-> 0],
      [isNaN |-> FALSE, value |-> 100] }

\* parseInt(e.target.value) || 1
ParseIntOr1(typed) == IF typed.isNaN \/ typed.value = 0 THEN 1 ELSE typed.value

InitExport ==
    /\ batesPrefix = DefaultBatesPrefix
    /\ batesStartNumber = 1
    /\ loadFileFormat = "DAT"
    /\ documentsProp \in DocLists
    /\ exportConfig = NoResult
    /\ prevExportConfig = NoResult
    /\ editedSince = FALSE
    /\ rerun = FALSE
    /\ IdleBates /\ IdleLedger /\ IdleProd /\ IdleView
    /\ IdleUpload /\ IdlePii /\ IdlePage

setBatesPrefix(value) ==
    /\ batesPrefix' = value
    /\ editedSince' = TRUE
    /\ UNCHANGED <<batesStartNumber, loadFileFormat, documentsProp,
                   exportConfig, prevExportConfig, rerun>>
    /\ UNCHANGED <<batesVars, ledgerVars, prodVars, viewVars,
                 uploadVars, piiVars, pageVars>>

setBatesStartNumber(typed) ==
    /\ batesStartNumber' = ParseIntOr1(typed)
    /\ editedSince' = TRUE
    /\ UNCHANGED <<batesPrefix, loadFileFormat, documentsProp,
                   exportConfig, prevExportConfig, rerun>>
    /\ UNCHANGED <<batesVars, ledgerVars, prodVars, viewVars,
                 uploadVars, piiVars, pageVars>>

setLoadFileFormat(value) ==
    /\ loadFileFormat' = value
    /\ editedSince' = TRUE
    /\ UNCHANGED <<batesPrefix, batesStartNumber, documentsProp,
                   exportConfig, prevExportConfig, rerun>>
    /\ UNCHANGED <<batesVars, ledgerVars, prodVars, viewVars,
                 uploadVars, piiVars, pageVars>>

\* the configuration handleExport hands to onExport
ExportConfigOf(prefix, startNumber, format, docs) ==
    LET batesNumbers == generateBatesNumbers(prefix, startNumber, Len(docs))
    IN  [batesPrefix |-> prefix,
         batesStartNumber |-> startNumber,
         loadFileFormat |-> format,
         documentCount |-> Len(docs),
         batesNumbers |-> batesNumbers,
         loadFile |-> generateLoadFile(format, docs, batesNumbers)]

\* a plausible change: the dialog advances its start number past the range
\* it has just used
handleExport_advancing ==
    /\ prevExportConfig' = exportConfig
    /\ exportConfig' = Result(ExportConfigOf(batesPrefix, batesStartNumber,
                                             loadFileFormat, documentsProp))
    /\ batesStartNumber' = batesStartNumber + Len(documentsProp)
    /\ editedSince' = FALSE
    /\ rerun' = (exportConfig.defined /\ ~editedSince)
    /\ UNCHANGED <<batesPrefix, loadFileFormat, documentsProp>>
    /\ UNCHANGED <<batesVars, ledgerVars, prodVars, viewVars,
                 uploadVars, piiVars, pageVars>>

\* ExportModal.handleExport, then Export.handleExport's setExportConfig;
\* the page's timers fire in the order the exports were made.
\* prevExportConfig remembers the run before; editedSince tells whether the
\* dialog's fields were edited since the last run, and rerun whether the
\* last run was made with the fields untouched since the run before.
handleExport ==
    /\ prevExportConfig' = exportConfig
    /\ exportConfig' = Result(ExportConfigOf(batesPrefix, batesStartNumber,
                                             loadFileFormat, documentsProp))
    /\ editedSince' = FALSE
    /\ rerun' = (exportConfig.defined /\ ~editedSince)
    /\ UNCHANGED <<batesPrefix, batesStartNumber, loadFileFormat,
                   documentsProp>>
    /\ UNCHANGED <<batesVars, ledgerVars, prodVars, viewVars,
                 uploadVars, piiVars, pageVars>>

NextExport ==
    \/ \E value \in ExportPrefixes : setBatesPrefix(value)
    \/ \E typed \in TypedNumbers : setBatesStartNumber(typed)
    \/ \E value \in LoadFileFormats : setLoadFileFormat(value)
    \/ handleExport

SpecExport == InitExport /\ [][NextExport]_vars

\* six decimal digits of n < 1000000, most significant first, by division
SixDigits(n) ==
    <<Digits[((n \div 100000) % 10) + 1], Digits[((n \div 10000) % 10) + 1],
      Digits[((n \div 1000) % 10) + 1], Digits[((n \div 100) % 10) + 1],
      Digits[((n \div 10) % 10) + 1], Digits[(n % 10) + 1]>>

\* where the text appended for document i starts in the load file, and
\* where the bates number starts inside it
RowStart(cfg, docs, i) ==
    Len(LoadFileHeader(cfg.loadFileFormat))
        + Len(Concat([k \in 1..(i - 1) |->
                 LoadFileRow(cfg.loadFileFormat, docs[k], cfg.batesNumbers[k])]))

BatesOffset(format, doc) ==
    IF format = "DAT" THEN 1 + Len(NumberToString(doc.id)) + 2
    ELSE IF format = "OPT" THEN 0
    ELSE Len(NumberToString(doc.id)) + 1

\* C2: production assembly assigns bates numbers in input order: document
\* Di of the list receives prefix + pad6(start + i - 1), and the load-file row
\* emitted for Di carries exactly that bates number.
C2_BatesInInputOrder ==
    exportConfig.defined =>
        LET cfg == exportConfig.value
            docs == documentsProp
        IN  /\ Len(cfg.batesNumbers) = Len(docs)
            /\ \A i \in 1..Len(docs) :
                  LET expected == cfg.batesPrefix
                                    \o SixDigits(cfg.batesStartNumber + i - 1)
                      from == RowStart(cfg, docs, i)
                                + BatesOffset(cfg.loadFileFormat, docs[i])
                  IN  /\ cfg.batesNumbers[i] = expected
                      /\ SubSeq(cfg.loadFile, from + 1, from + Len(expected))
                            = expected

\* the spec's example: three documents, prefix "X_", start 100
C2_Witness ==
    /\ exportConfig.defined
    /\ Len(documentsProp) = 3
    /\ exportConfig.value.batesNumbers
         = << <<"X", "_", "0", "0", "0", "1", "0", "0">>,
              <<"X", "_", "0", "0", "0", "1", "0", "1">>,
              <<"X", "_", "0", "0", "0", "1", "0", "2">> >>

\* the numeric ranges of two runs
RangeOf(cfg) ==
    { ParseDecimal(BatesSuffix(cfg.batesNumbers[k], cfg.batesPrefix)) :
        k \in 1..Len(cfg.batesNumbers) }

SameConfiguration(a, b) ==
    /\ a.batesPrefix = b.batesPrefix
    /\ a.batesStartNumber = b.batesStartNumber
    /\ a.loadFileFormat = b.loadFileFormat

MaxSets == 2
MaxLinks == 3
MaxTicks == 2

\* Date.now() is read on a window of milliseconds around a multiple of
\* 10^6 ms (one comes every 1000 s); the digits above the last six play no
\* part in slice(-6).
ClockStart == 1999999

DocIds == {1, 2}
MissingId == 9
RequestedIds == DocIds \cup {MissingId}

Response(op, status) == Result([op |-> op, status |-> status])

\* storage.getDocument / storage.getProductionSet: the row or nothing
DocumentExists(id) == id \in DOMAIN documents
ProductionSetExists(id) == id \in 1..Len(productionSets)

SetPrefixes == { Null, Some(<<>>), Some(<<"X", "_">>) }
ProdDefaultPrefix == <<"P", "R", "O", "D">>

\* productionSet.prefix || "PROD"
PrefixOrProd(opt) == IF OrEmpty(opt) = <<>> THEN ProdDefaultPrefix ELSE opt.value

\* `${batesPrefix}${String(Date.now()).slice(-6)}`
TimeBatesNumber(prefixOpt, time) ==
    PrefixOrProd(prefixOpt) \o sliceLast(NumberToString(time), 6)

\* storage.createProductionSet: insert with the next serial id
createProductionSet(table, prefixOpt) ==
    Append(table, [id |-> Len(table) + 1, prefix |-> prefixOpt])

\* storage.addDocumentToProductionSet: insert with the next serial id
addDocumentToProductionSet(table, setId, docId, batesNumber) ==
    Append(table, [id |-> Len(table) + 1, productionSetId |-> setId,
                   documentId |-> docId, batesNumber |-> batesNumber])

InitProduction ==
    /\ documents = [d \in DocIds |-> [isRedacted |-> FALSE]]
    /\ productionSets = <<>>
    /\ productionDocuments = <<>>
    /\ now = ClockStart
    \* the table as created by scripts/setup-db.ts has
    \* UNIQUE(production_set_id, document_id); the table of the Drizzle
    \* schema (npm run db:push) has no such index
    /\ uniquePairIndex \in BOOLEAN
    /\ prodResponse = NoResult
    /\ redactions = {} /\ nextRedactionId = 1 /\ inflight = <<>>
    /\ lastResponse = NoResult
    /\ IdleBates /\ IdleExport /\ IdleView
    /\ IdleUpload /\ IdlePii /\ IdlePage

ProdUnchanged == UNCHANGED <<batesVars, exportVars, ledgerVars, viewVars,
                 uploadVars, piiVars, pageVars>>

\* time passes between requests
Tick ==
    /\ now < ClockStart + MaxTicks
    /\ now' = now + 1
    /\ UNCHANGED <<productionSets, productionDocuments, uniquePairIndex,
                   prodResponse>>
    /\ ProdUnchanged

\* POST /api/production-sets; body.name is required by insertProductionSetSchema
PostProductionSet(body) ==
    /\ Len(productionSets) < MaxSets
    /\ IF body.name.isNull
       THEN /\ prodResponse' = Response("POST /api/production-sets", 400)
            /\ UNCHANGED productionSets
       ELSE /\ productionSets' = createProductionSet(productionSets,
                                                      body.prefix)
            /\ prodResponse' = Response("POST /api/production-sets", 201)
    /\ UNCHANGED <<productionDocuments, now, uniquePairIndex>>
    /\ ProdUnchanged

\* the insert of storage.addDocumentToProductionSet violates the unique
\* index of the table
PairTaken(setId, docId) ==
    /\ uniquePairIndex
    /\ \E k \in 1..Len(productionDocuments) :
          /\ productionDocuments[k].productionSetId = setId
          /\ productionDocuments[k].documentId = docId

\* POST /api/production-documents; body.batesNumber is required by
\* insertProductionDocumentSchema and then overwritten by the handler
PostProductionDocument(body) ==
    /\ Len(productionDocuments) < MaxLinks
    /\ LET op == "POST /api/production-documents"
       IN  IF body.batesNumber.isNull
           THEN /\ prodResponse' = Response(op, 400)
                /\ UNCHANGED productionDocuments
           ELSE IF ~ProductionSetExists(body.productionSetId)
                   \/ ~DocumentExists(body.documentId)
           THEN /\ prodResponse' = Response(op, 404)
                /\ UNCHANGED productionDocuments
           ELSE IF PairTaken(body.productionSetId, body.documentId)
           THEN /\ prodResponse' = Response(op, 500)
                /\ UNCHANGED productionDocuments
           ELSE /\ productionDocuments' =
                      addDocumentToProductionSet(productionDocuments,
                          body.productionSetId, body.documentId,
                          TimeBatesNumber(
                              productionSets[body.productionSetId].prefix,
                              now))
                /\ prodResponse' = Response(op, 201)
    /\ UNCHANGED <<productionSets, now, uniquePairIndex>>
    /\ ProdUnchanged

ProductionSetBodies == [name : {Null, Some(<<"n">>)}, prefix : SetPrefixes]
ProductionDocumentBodies ==
    [productionSetId : 1..MaxSets, documentId : RequestedIds,
     batesNumber : {Null, Some(<<>>)}]

NextProduction ==
    \/ Tick
    \/ \E body \in ProductionSetBodies : PostProductionSet(body)
    \/ \E body \in ProductionDocumentBodies : PostProductionDocument(body)

SpecProduction == InitProduction /\ [][NextProduction]_vars

LinkNumber(link) == ParseDecimal(sliceLast(link.batesNumber, 6))

MaxRequests == 2
MaxRedactions == 2

Slots == 1..MaxRequests
IdleSlot == [pc |-> "idle", documentId |-> 0, text |-> <<>>]

\* storage.createRedaction: insert with the next serial id
createRedaction(table, id, documentId, text) ==
    table \cup { [id |-> id, documentId |-> documentId, text |-> text] }

\* storage.updateDocument: set the given fields of the row, if there is one
updateDocument(table, id, isRedacted) ==
    IF id \in DOMAIN table
    THEN [table EXCEPT ![id] = [isRedacted |-> isRedacted]]
    ELSE table

\* storage.deleteRedaction: delete the row; the document row is not touched
deleteRedaction(table, id) == { r \in table : r.id # id }

ResponseFor(op, status, documentId) ==
    Result([op |-> op, status |-> status, documentId |-> documentId])

InitLedger ==
    /\ documents = [d \in DocIds |-> [isRedacted |-> FALSE]]
    /\ redactions = {}
    /\ nextRedactionId = 1
    /\ inflight = [slot \in Slots |-> IdleSlot]
    /\ lastResponse = NoResult
    /\ IdleBates /\ IdleExport /\ IdleProd /\ IdleView
    /\ IdleUpload /\ IdlePii /\ IdlePage

LedgerUnchanged == UNCHANGED <<batesVars, exportVars, prodVars, viewVars,
                 uploadVars, piiVars, pageVars>>

\* requests being handled; a new request takes the first free slot
Busy == { slot \in Slots : inflight[slot].pc # "idle" }

\* validateBody(insertRedactionSchema): text is a required string
\* (text("text").notNull()); then the handler starts
ReceivePostRedaction(slot, body) ==
    /\ inflight[slot].pc = "idle"
    /\ \A other \in Slots : other < slot => inflight[other].pc # "idle"
    /\ nextRedactionId + Cardinality(Busy) <= MaxRedactions
    /\ IF body.text.isNull
       THEN /\ lastResponse' = ResponseFor("POST /api/redactions", 400,
                                           body.documentId)
            /\ UNCHANGED inflight
       ELSE /\ inflight' = [inflight EXCEPT ![slot] =
                  [pc |-> "getDocument", documentId |-> body.documentId,
                   text |-> body.text.value]]
            /\ UNCHANGED lastResponse
    /\ UNCHANGED <<documents, redactions, nextRedactionId>>
    /\ LedgerUnchanged

\* const document = await storage.getDocument(documentId)
PostGetDocument(slot) ==
    /\ inflight[slot].pc = "getDocument"
    /\ IF DocumentExists(inflight[slot].documentId)
       THEN /\ inflight' = [inflight EXCEPT ![slot].pc = "createRedaction"]
            /\ UNCHANGED lastResponse
       ELSE /\ inflight' = [inflight EXCEPT ![slot] = IdleSlot]
            /\ lastResponse' = ResponseFor("POST /api/redactions", 404,
                                           inflight[slot].documentId)
    /\ UNCHANGED <<documents, redactions, nextRedactionId>>
    /\ LedgerUnchanged

\* const redaction = await storage.createRedaction(req.body); a rejected
\* promise is answered 500 by the catch
PostCreateRedaction(slot, ok) ==
    /\ inflight[slot].pc = "createRedaction"
    /\ IF ok
       THEN /\ redactions' = createRedaction(redactions, nextRedactionId,
                                 inflight[slot].documentId, inflight[slot].text)
            /\ nextRedactionId' = nextRedactionId + 1
            /\ inflight' = [inflight EXCEPT ![slot].pc = "updateDocument"]
            /\ UNCHANGED lastResponse
       ELSE /\ inflight' = [inflight EXCEPT ![slot] = IdleSlot]
            /\ lastResponse' = ResponseFor("POST /api/redactions", 500,
                                           inflight[slot].documentId)
            /\ UNCHANGED <<redactions, nextRedactionId>>
    /\ UNCHANGED documents
    /\ LedgerUnchanged

\* a plausible slip: the row is answered 201 without the flag update
PostUpdateDocument_noFlag(slot, ok) ==
    /\ inflight[slot].pc = "updateDocument"
    /\ lastResponse' = ResponseFor("POST /api/redactions",
                                   IF ok THEN 201 ELSE 500,
                                   inflight[slot].documentId)
    /\ inflight' = [inflight EXCEPT ![slot] = IdleSlot]
    /\ UNCHANGED <<documents, redactions, nextRedactionId>>
    /\ LedgerUnchanged

\* await storage.updateDocument(documentId, { isRedacted: true });
\* res.status(201).json(redaction); a rejected promise is answered 500
PostUpdateDocument(slot, ok) ==
    /\ inflight[slot].pc = "updateDocument"
    /\ IF ok
       THEN /\ documents' = updateDocument(documents,
                                           inflight[slot].documentId, TRUE)
            /\ lastResponse' = ResponseFor("POST /api/redactions", 201,
                                           inflight[slot].documentId)
       ELSE /\ UNCHANGED documents
            /\ lastResponse' = ResponseFor("POST /api/redactions", 500,
                                           inflight[slot].documentId)
    /\ inflight' = [inflight EXCEPT ![slot] = IdleSlot]
    /\ UNCHANGED <<redactions, nextRedactionId>>
    /\ LedgerUnchanged

\* a plausible change: the flag is recomputed when the last redaction of the
\* document goes
DeleteRedaction_recompute(id) ==
    /\ LET left == deleteRedaction(redactions, id)
       IN  /\ redactions' = left
           /\ documents' =
                 [d \in DOMAIN documents |->
                    IF (\E r \in redactions : r.id = id /\ r.documentId = d)
                       /\ ~(\E r \in left : r.documentId = d)
                    THEN [isRedacted |-> FALSE] ELSE documents[d]]
    /\ lastResponse' = ResponseFor("DELETE /api/redactions/:id",
                           IF \E r \in redactions : r.id = id
                           THEN 204 ELSE 500, 0)
    /\ UNCHANGED <<nextRedactionId, inflight>>
    /\ LedgerUnchanged

\* DELETE /api/redactions/:id for a numeric id: 204 when a row was deleted,
\* 500 otherwise
DeleteRedaction(id) ==
    /\ redactions' = deleteRedaction(redactions, id)
    /\ lastResponse' = ResponseFor("DELETE /api/redactions/:id",
                           IF \E r \in redactions : r.id = id
                           THEN 204 ELSE 500, 0)
    /\ UNCHANGED <<documents, nextRedactionId, inflight>>
    /\ LedgerUnchanged

\* PATCH /api/documents/:id with body { isRedacted }
PatchDocument(id, isRedacted) ==
    /\ IF DocumentExists(id)
       THEN /\ documents' = updateDocument(documents, id, isRedacted)
            /\ lastResponse' = ResponseFor("PATCH /api/documents/:id", 200, id)
       ELSE /\ UNCHANGED documents
            /\ lastResponse' = ResponseFor("PATCH /api/documents/:id", 404, id)
    /\ UNCHANGED <<redactions, nextRedactionId, inflight>>
    /\ LedgerUnchanged

RedactionBodies ==
    [documentId : RequestedIds, text : {Null, Some(<<"s">>)}]

AddRedactionStep ==
    \/ \E slot \in Slots, body \in RedactionBodies :
          ReceivePostRedaction(slot, body)
    \/ \E slot \in Slots : PostGetDocument(slot)
    \/ \E slot \in Slots, ok \in BOOLEAN : PostCreateRedaction(slot, ok)
    \/ \E slot \in Slots, ok \in BOOLEAN : PostUpdateDocument(slot, ok)

RemoveRedactionStep == \E id \in 1..MaxRedactions : DeleteRedaction(id)

NextLedger ==
    \/ AddRedactionStep
    \/ RemoveRedactionStep
    \/ \E id \in RequestedIds, isRedacted \in BOOLEAN :
          PatchDocument(id, isRedacted)

SpecLedger == InitLedger /\ [][NextLedger]_vars

HasRedaction(d) == \E r \in redactions : r.documentId = d

MaxTextLen == 4
MaxSpanLen == 2
MaxEntries == 3

Alphabet == {"a", "x", "$"}

StringsUpTo(n) == UNION { [1..m -> Alphabet] : m \in 0..n }

\* `<span class="redacted">` and `</span>`
RedactedOpen ==
    <<"<", "s", "p", "a", "n", " ", "c", "l", "a", "s", "s", "=", "\"",
      "r", "e", "d", "a", "c", "t", "e", "d", "\"", ">">>
RedactedClose == <<"<", "/", "s", "p", "a", "n", ">">>

StartsWithAt(s, t, p) ==
    /\ p + Len(t) - 1 <= Len(s)
    /\ SubSeq(s, p, p + Len(t) - 1) = t

\* String.prototype.indexOf from position p (1-based; 0 when absent)
RECURSIVE IndexOfFrom(_, _, _)
IndexOfFrom(s, t, p) ==
    IF p + Len(t) - 1 > Len(s) THEN 0
    ELSE IF StartsWithAt(s, t, p) THEN p
    ELSE IndexOfFrom(s, t, p + 1)

\* GetSubstitution for a string pattern (no captures): $$ gives $, $& the
\* match, $` the text before it, $' the text after it; any other $ is literal
RECURSIVE GetSubstitution(_, _, _, _)
GetSubstitution(template, matched, before, after) ==
    IF template = <<>> THEN <<>>
    ELSE IF Head(template) = "$" /\ Len(template) >= 2
         THEN LET c == template[2]
                  rest == SubSeq(template, 3, Len(template))
              IN  IF c = "$" THEN
                      <<"$">> \o GetSubstitution(rest, matched, before, after)
                  ELSE IF c = "&" THEN
                      matched \o GetSubstitution(rest, matched, before, after)
                  ELSE IF c = "`" THEN
                      before \o GetSubstitution(rest, matched, before, after)
                  ELSE IF c = "'" THEN
                      after \o GetSubstitution(rest, matched, before, after)
                  ELSE <<"$">> \o GetSubstitution(Tail(template), matched,
                                                  before, after)
         ELSE <<Head(template)>> \o GetSubstitution(Tail(template), matched,
                                                    before, after)

\* a plausible change: every occurrence is replaced (replaceAll)
RECURSIVE replace_all(_, _, _)
replace_all(s, searchValue, replaceValue) ==
    LET p == IndexOfFrom(s, searchValue, 1)
    IN  IF p = 0 THEN s
        ELSE SubSeq(s, 1, p - 1) \o replaceValue
               \o replace_all(SubSeq(s, p + Len(searchValue), Len(s)),
                              searchValue, replaceValue)

\* String.prototype.replace(searchValue, replaceValue) with two strings:
\* the first occurrence only
replace(s, searchValue, replaceValue) ==
    LET p == IndexOfFrom(s, searchValue, 1)
    IN  IF p = 0 THEN s
        ELSE LET before == SubSeq(s, 1, p - 1)
                 after == SubSeq(s, p + Len(searchValue), Len(s))
             IN  before
                   \o GetSubstitution(replaceValue, searchValue, before, after)
                   \o after

\* redactions.forEach(redaction => { if (redaction.text) ... })
RECURSIVE ApplyRedactions(_, _)
ApplyRedactions(processed, texts) ==
    IF texts = <<>> THEN processed
    ELSE ApplyRedactions(
             IF Head(texts) # <<>>
             THEN replace(processed, Head(texts),
                          RedactedOpen \o Head(texts) \o RedactedClose)
             ELSE processed,
             Tail(texts))

processContent(content, texts) ==
    IF content = <<>> THEN <<>> ELSE ApplyRedactions(content, texts)

\* the viewer is given a text and a list of identical redaction entries
InitViewer ==
    /\ viewContent \in StringsUpTo(MaxTextLen)
    /\ \E span \in StringsUpTo(MaxSpanLen), k \in 0..MaxEntries :
          viewRedactions = [i \in 1..k |-> span]
    /\ processedContent = NoResult
    /\ IdleBates /\ IdleExport /\ IdleLedger /\ IdleProd
    /\ IdleUpload /\ IdlePii /\ IdlePage

Render ==
    /\ ~processedContent.defined
    /\ processedContent' = Result(processContent(viewContent, viewRedactions))
    /\ UNCHANGED <<viewContent, viewRedactions>>
    /\ UNCHANGED <<batesVars, exportVars, ledgerVars, prodVars,
                 uploadVars, piiVars, pageVars>>

NextViewer == Render

SpecViewer == InitViewer /\ [][NextViewer]_vars

\* positions where span occurs in text
Occurrences(text, span) ==
    { p \in 1..Len(text) : StartsWithAt(text, span, p) }

LeastOf(set) == CHOOSE p \in set : \A q \in set : p <= q

HasChar(s, c) == \E i \in 1..Len(s) : s[i] = c

\* C9: a single text-span redaction whose span occurs two or more times in
\* the text marks only the first (leftmost) occurrence: the text before it,
\* and the text after it with every later occurrence, are left as they were.
C9_OnlyFirstOccurrenceMarked ==
    ( /\ processedContent.defined
      /\ Len(viewRedactions) = 1
      /\ viewRedactions[1] # <<>>
      /\ Cardinality(Occurrences(viewContent, viewRedactions[1])) >= 2 )
    => LET span == viewRedactions[1]
           out == processedContent.value
           p == LeastOf(Occurrences(viewContent, span))
           head == SubSeq(viewContent, 1, p - 1) \o RedactedOpen
           tail == RedactedClose
                     \o SubSeq(viewContent, p + Len(span), Len(viewContent))
       IN  /\ Len(out) >= Len(head) + Len(tail)
           /\ SubSeq(out, 1, Len(head)) = head
           /\ SubSeq(out, Len(out) - Len(tail) + 1, Len(out)) = tail
           /\ ~HasChar(span, "$") => out = head \o span \o tail

C9_Witness ==
    /\ processedContent.defined
    /\ viewRedactions = << <<"x">> >>
    /\ viewContent = <<"a", "x", "a", "x">>
    /\ processedContent.value
         = <<"a">> \o RedactedOpen \o <<"x">> \o RedactedClose
             \o <<"a", "x">>

\* the text with its first k occurrences of span marked, one after the other
RECURSIVE MaskFirstK(_, _, _)
MaskFirstK(text, span, k) ==
    LET occ == Occurrences(text, span)
    IN  IF k = 0 \/ occ = {} THEN text
        ELSE LET p == LeastOf(occ)
             IN  SubSeq(text, 1, p - 1) \o RedactedOpen \o span
                   \o RedactedClose
                   \o MaskFirstK(SubSeq(text, p + Len(span), Len(text)),
                                 span, k - 1)

\* occurrences of span in text counted left to right without overlap
RECURSIVE CountOccurrences(_, _)
CountOccurrences(text, span) ==
    LET occ == Occurrences(text, span)
    IN  IF occ = {} THEN 0
        ELSE 1 + CountOccurrences(
                     SubSeq(text, LeastOf(occ) + Len(span), Len(text)), span)

\* C10: k identical text-span entries applied to a text that contains the
\* span at least k times mask k distinct occurrences, one per entry.
\* (Stated for spans without "$", whose marked form is the span itself.)
C10_OneOccurrencePerEntry ==
    ( /\ processedContent.defined
      /\ Len(viewRedactions) >= 1
      /\ viewRedactions[1] # <<>>
      /\ ~HasChar(viewRedactions[1], "$")
      /\ CountOccurrences(viewContent, viewRedactions[1])
           >= Len(viewRedactions) )
    => processedContent.value
         = MaskFirstK(viewContent, viewRedactions[1], Len(viewRedactions))

(***************************************************************************)
(* Load-file layout (SpecExport)                                           *)
(***************************************************************************)
\* the lines of a text: the pieces that end with a line feed
RECURSIVE SplitLines(_)
SplitLines(s) ==
    IF \A k \in 1..Len(s) : s[k] # "\n" THEN <<>>
    ELSE LET nl == CHOOSE k \in 1..Len(s) :
                      /\ s[k] = "\n"
                      /\ \A j \in 1..(k - 1) : s[j] # "\n"
         IN  <<SubSeq(s, 1, nl - 1)>> \o SplitLines(SubSeq(s, nl + 1, Len(s)))

HeaderLines(format) == IF format = "OPT" THEN 0 ELSE 1

IsPrefixOf(t, s) == Len(t) <= Len(s) /\ SubSeq(s, 1, Len(t)) = t

\* how a row that describes document doc begins, per layout
RowLead(format, doc, bates) ==
    IF format = "DAT" THEN <<"þ">> \o NumberToString(doc.id) \o <<"þ", "þ">>
                             \o bates \o <<"þ", "þ">>
    ELSE IF format = "OPT" THEN bates \o <<",">> \o doc.filePath \o <<",">>
    ELSE NumberToString(doc.id) \o <<",">> \o bates \o <<",">>

\* C11: for n documents and n bates numbers the load file is exactly one
\* header line followed by exactly n data rows (DAT, CSV) or exactly n rows
\* and no header (OPT), row i describing document i, whatever the titles
\* and custodians are.
C11_OneRowPerDocument ==
    exportConfig.defined =>
        LET cfg == exportConfig.value
            docs == documentsProp
            h == HeaderLines(cfg.loadFileFormat)
            lines == SplitLines(cfg.loadFile)
        IN  /\ Len(lines) = h + Len(docs)
            /\ cfg.loadFile = Concat([k \in 1..Len(lines) |->
                                         lines[k] \o <<"\n">>])
            /\ \A i \in 1..Len(docs) :
                  IsPrefixOf(RowLead(cfg.loadFileFormat, docs[i],
                                     cfg.batesNumbers[i]), lines[h + i])

\* where the custodian field of row i starts, and what must follow an
\* empty custodian: the closing of the field, the file type, the row's end
CustodianOffset(format, doc, bates) ==
    Len(RowLead(format, doc, bates)) + Len(doc.title)
        + (IF format = "DAT" THEN 2 ELSE 1)

AfterCustodian(format, doc) ==
    IF format = "DAT" THEN <<"þ", "þ">> \o doc.fileType \o <<"þ", "\n">>
    ELSE <<",">> \o doc.fileType \o <<"\n">>

\* C12: in the DAT and CSV load files a document whose custodian is absent
\* (null or empty) has an empty custodian field: the field's closing
\* delimiter follows its opening one directly, so neither "null" nor
\* "undefined" stands in the custodian position.
C12_AbsentCustodianEmptyField ==
    (exportConfig.defined /\ exportConfig.value.loadFileFormat # "OPT") =>
        LET cfg == exportConfig.value
            docs == documentsProp
        IN  \A i \in 1..Len(docs) :
              (docs[i].custodian.isNull \/ docs[i].custodian.value = <<>>) =>
                  LET from == RowStart(cfg, docs, i)
                                + CustodianOffset(cfg.loadFileFormat, docs[i],
                                                  cfg.batesNumbers[i])
                      rest == AfterCustodian(cfg.loadFileFormat, docs[i])
                  IN  SubSeq(cfg.loadFile, from + 1, from + Len(rest)) = rest

\* a DAT and a CSV-layout export that hold a document without custodian
C12_Witness ==
    /\ exportConfig.defined /\ prevExportConfig.defined
    /\ exportConfig.value.loadFileFormat = "XML"
    /\ prevExportConfig.value.loadFileFormat = "DAT"
    /\ \E i \in 1..Len(documentsProp) : documentsProp[i].custodian.isNull
    /\ \E i \in 1..Len(documentsProp) :
          documentsProp[i].custodian = Some(<<>>)

\* the three layouts, written out from the formats' definitions
ConcordanceLayout(docs, batesNumbers) ==
    <<"þ", "D", "O", "C", "I", "D", "þ", "þ", "B", "A", "T", "E", "S", "þ",
      "þ", "T", "I", "T", "L", "E", "þ", "þ", "C", "U", "S", "T", "O", "D",
      "I", "A", "N", "þ", "þ", "F", "I", "L", "E", "T", "Y", "P", "E", "þ",
      "\n">>
    \o Concat([k \in 1..Len(docs) |->
          <<"þ">> \o NatToString(docs[k].id) \o <<"þ", "þ">>
            \o batesNumbers[k] \o <<"þ", "þ">> \o docs[k].title
            \o <<"þ", "þ">>
            \o (IF docs[k].custodian.isNull THEN <<>>
                ELSE docs[k].custodian.value)
            \o <<"þ", "þ">> \o docs[k].fileType \o <<"þ", "\n">>])

OpticonLayout(docs, batesNumbers) ==
    Concat([k \in 1..Len(docs) |->
          batesNumbers[k] \o <<",">> \o docs[k].filePath
            \o <<",", "Y", ",", ",", ",", ",", ",", "\n">>])

PlainCsvLayout(docs, batesNumbers) ==
    <<"I", "D", ",", "B", "A", "T", "E", "S", ",", "T", "I", "T", "L", "E",
      ",", "C", "U", "S", "T", "O", "D", "I", "A", "N", ",", "F", "I", "L",
      "E", "T", "Y", "P", "E", "\n">>
    \o Concat([k \in 1..Len(docs) |->
          NatToString(docs[k].id) \o <<",">> \o batesNumbers[k] \o <<",">>
            \o docs[k].title \o <<",">>
            \o (IF docs[k].custodian.isNull THEN <<>>
                ELSE docs[k].custodian.value)
            \o <<",">> \o docs[k].fileType \o <<"\n">>])

\* C13: the layout depends on the format value alone: DAT gives the
\* Concordance layout, OPT the Opticon layout, and every other value (DII
\* and XML of the export dialog included) the plain CSV layout with header
\* ID,BATES,TITLE,CUSTODIAN,FILETYPE.
C13_LayoutByFormat ==
    exportConfig.defined =>
        LET cfg == exportConfig.value
            docs == documentsProp
        IN  cfg.loadFile =
              IF cfg.loadFileFormat = "DAT"
                  THEN ConcordanceLayout(docs, cfg.batesNumbers)
              ELSE IF cfg.loadFileFormat = "OPT"
                  THEN OpticonLayout(docs, cfg.batesNumbers)
              ELSE PlainCsvLayout(docs, cfg.batesNumbers)

\* the dialog's DII and XML values were both exported, with documents
C13_Witness ==
    /\ exportConfig.defined /\ prevExportConfig.defined
    /\ exportConfig.value.loadFileFormat = "DII"
    /\ prevExportConfig.value.loadFileFormat = "XML"
    /\ Len(documentsProp) = 2

(***************************************************************************)
(* Characters.  A string is a sequence of UTF-16 code units; a code unit   *)
(* is written as the one-character string it prints as, and those outside  *)
(* printable Latin-1 are named by their code point: "U+0000" (the null     *)
(* character), "U+00A0" (no-break space), "U+D83D" and "U+DE00" (a high    *)
(* and a low surrogate), "U+FFFD" (the replacement character); "U+0060"   *)
(* is the grave accent.                                                    *)
(***************************************************************************)
DigitChars == { "0", "1", "2", "3", "4", "5", "6", "7", "8", "9" }

UpperChars ==
    { "A", "B", "C", "D", "E", "F", "G", "H", "I", "J", "K", "L", "M", "N",
      "O", "P", "Q", "R", "S", "T", "U", "V", "W", "X", "Y", "Z" }

LowerChars ==
    { "a", "b", "c", "d", "e", "f", "g", "h", "i", "j", "k", "l", "m", "n",
      "o", "p", "q", "r", "s", "t", "u", "v", "w", "x", "y", "z" }

PunctuationChars ==
    { "!", "\"", "#", "$", "%", "&", "'", "(", ")", "*", "+", ",", "-", ".",
      "/", ":", ";", "<", "=", ">", "?", "@", "[", "\\", "]", "^", "_", "U+0060",
      "{", "|", "}", "~" }

\* \x20-\x7E
PrintableAscii ==
    {" "} \cup DigitChars \cup UpperChars \cup LowerChars \cup PunctuationChars

\* sample code units of U+00A0..U+024F, of the surrogate range, and of
\* the rest of the code space
LatinExtended == { "U+00A0", "é", "þ", "U+0151" }
Surrogates == { "U+D83D", "U+DE00" }
NullChar == "U+0000"
OtherChars == { "\t", "\f", "U+20AC", "U+4E2D", "U+FFFD" }

\* \w, \s as ECMAScript defines them (on the code units above)
WordChars == DigitChars \cup UpperChars \cup LowerChars \cup {"_"}
WhitespaceChars == { " ", "\t", "\n", "\r", "\f", "U+00A0" }

LowerAlphabet ==
    <<"a", "b", "c", "d", "e", "f", "g", "h", "i", "j", "k", "l", "m", "n",
      "o", "p", "q", "r", "s", "t", "u", "v", "w", "x", "y", "z">>

UpperAlphabet ==
    <<"A", "B", "C", "D", "E", "F", "G", "H", "I", "J", "K", "L", "M", "N",
      "O", "P", "Q", "R", "S", "T", "U", "V", "W", "X", "Y", "Z">>

\* String.prototype.toLowerCase / toUpperCase, code unit by code unit
ToLowerChar(c) ==
    IF c \in UpperChars
    THEN LowerAlphabet[CHOOSE k \in 1..26 : UpperAlphabet[k] = c] ELSE c

ToUpperChar(c) ==
    IF c \in LowerChars
    THEN UpperAlphabet[CHOOSE k \in 1..26 : LowerAlphabet[k] = c] ELSE c

toLowerCase(s) == [k \in 1..Len(s) |-> ToLowerChar(s[k])]
toUpperCase(s) == [k \in 1..Len(s) |-> ToUpperChar(s[k])]

\* String.prototype.includes
includes(s, t) ==
    \E p \in 1..(Len(s) - Len(t) + 1) : SubSeq(s, p, p + Len(t) - 1) = t

\* String.prototype.trim
RECURSIVE trimStart(_)
trimStart(s) ==
    IF s # <<>> /\ Head(s) \in WhitespaceChars THEN trimStart(Tail(s)) ELSE s

RECURSIVE trimEnd(_)
trimEnd(s) ==
    IF s # <<>> /\ s[Len(s)] \in WhitespaceChars
    THEN trimEnd(SubSeq(s, 1, Len(s) - 1)) ELSE s

trim(s) == trimEnd(trimStart(s))

\* Array.prototype.join
RECURSIVE join(_, _)
join(parts, sep) ==
    IF parts = <<>> THEN <<>>
    ELSE IF Len(parts) = 1 THEN parts[1]
    ELSE parts[1] \o sep \o join(Tail(parts), sep)

(***************************************************************************)
(* Regular expressions, as ECMAScript's backtracking matcher runs them.    *)
(* A pattern is a sequence of nodes:                                       *)
(*   cls   a character class with a greedy quantifier {min,max}, max = -1  *)
(*         when unbounded; neg for a negated class [^...]                  *)
(*   b     the assertion \b;  bol, eol  the assertions ^ and $             *)
(*   alt   alternatives, tried left to right                               *)
(*   opt   a greedy optional group (...)? ;  star  a greedy group (...)*   *)
(* MatchAt gives the index just after the match that starts at i, or 0.    *)
(***************************************************************************)
Cls(set, min, max) ==
    [k |-> "cls", in |-> set, neg |-> FALSE, min |-> min, max |-> max]
NotCls(set, min, max) ==
    [k |-> "cls", in |-> set, neg |-> TRUE, min |-> min, max |-> max]
WordBoundary == [k |-> "b"]
LineStart == [k |-> "bol"]
LineEnd == [k |-> "eol"]
Alt(alts) == [k |-> "alt", alts |-> alts]
Opt(body) == [k |-> "opt", body |-> body]
Star(body) == [k |-> "star", body |-> body]

\* a literal, and a literal under the i flag
Lit(str) == [j \in 1..Len(str) |-> Cls({str[j]}, 1, 1)]
LitI(str) ==
    [j \in 1..Len(str) |-> Cls({ToLowerChar(str[j]), ToUpperChar(str[j])}, 1, 1)]

InClass(node, c) == (c \in node.in) # node.neg

IsWordAt(s, i) == i \in 1..Len(s) /\ s[i] \in WordChars

RECURSIVE RunLength(_, _, _, _)
RunLength(node, s, i, limit) ==
    IF limit = 0 \/ i > Len(s) THEN 0
    ELSE IF ~InClass(node, s[i]) THEN 0
    ELSE 1 + RunLength(node, s, i + 1, limit - 1)

RECURSIVE MatchAt(_, _, _)
RECURSIVE TryCounts(_, _, _, _, _)
RECURSIVE TryAlternatives(_, _, _, _, _)

\* the longest repetition count first, then shorter ones (greedy)
TryCounts(rest, s, i, count, min) ==
    IF count < min THEN 0
    ELSE LET end == MatchAt(rest, s, i + count)
         IN  IF end # 0 THEN end ELSE TryCounts(rest, s, i, count - 1, min)

TryAlternatives(alts, j, rest, s, i) ==
    IF j > Len(alts) THEN 0
    ELSE LET end == MatchAt(alts[j] \o rest, s, i)
         IN  IF end # 0 THEN end ELSE TryAlternatives(alts, j + 1, rest, s, i)

MatchAt(pattern, s, i) ==
    IF Len(pattern) = 0 THEN i
    ELSE LET node == Head(pattern)
             rest == Tail(pattern)
         IN  CASE node.k = "cls" ->
                    TryCounts(rest, s, i, RunLength(node, s, i, node.max),
                              node.min)
               [] node.k = "b" ->
                    IF IsWordAt(s, i - 1) # IsWordAt(s, i)
                    THEN MatchAt(rest, s, i) ELSE 0
               [] node.k = "bol" -> IF i = 1 THEN MatchAt(rest, s, i) ELSE 0
               [] node.k = "eol" ->
                    IF i = Len(s) + 1 THEN MatchAt(rest, s, i) ELSE 0
               [] node.k = "alt" -> TryAlternatives(node.alts, 1, rest, s, i)
               [] node.k = "opt" ->
                    LET end == MatchAt(node.body \o rest, s, i)
                    IN  IF end # 0 THEN end ELSE MatchAt(rest, s, i)
               [] node.k = "star" ->
                    LET end == MatchAt(node.body \o <<node>> \o rest, s, i)
                    IN  IF end # 0 THEN end ELSE MatchAt(rest, s, i)

\* RegExp.prototype.test without the g flag
test(pattern, s) == \E i \in 1..(Len(s) + 1) : MatchAt(pattern, s, i) # 0

\* a match of a pattern that opens with a character class of one or more
\* characters can only start on a character of that class
CanStartAt(pattern, s, i) ==
    (pattern # <<>> /\ pattern[1].k = "cls" /\ pattern[1].min > 0)
        => (i <= Len(s) /\ InClass(pattern[1], s[i]))

\* the non-empty matches the pattern has at the positions from `from` on
MatchCandidates(pattern, s, from) ==
    { m \in { [start |-> i, end |-> MatchAt(pattern, s, i)] :
                i \in { k \in from..(Len(s) + 1) : CanStartAt(pattern, s, k) } } :
        m.end # 0 /\ m.end # m.start }

\* the successive matches of a g-flagged pattern, as String.prototype.match
\* and a `while (exec)` loop find them: the leftmost match first, and each
\* search resumes where the match before ended
RECURSIVE MatchesFrom(_, _)
MatchesFrom(candidates, from) ==
    IF \A m \in candidates : m.start < from THEN <<>>
    ELSE LET first == CHOOSE m \in candidates :
                          /\ m.start >= from
                          /\ \A n \in candidates :
                                n.start >= from => m.start <= n.start
         IN  <<first>> \o MatchesFrom(candidates, first.end)

MatchAll(pattern, s, from) ==
    MatchesFrom(MatchCandidates(pattern, s, from), from)

\* the matched texts
TextsOf(found, s) ==
    [j \in 1..Len(found) |-> SubSeq(s, found[j].start, found[j].end - 1)]

MatchTexts(pattern, s) == TextsOf(MatchAll(pattern, s, 1), s)

\* String.prototype.replace(/pattern/g, replacement) for a replacement
\* without $ patterns
RECURSIVE ReplaceFrom(_, _, _, _)
ReplaceFrom(found, s, from, replacement) ==
    IF found = <<>> THEN SubSeq(s, from, Len(s))
    ELSE SubSeq(s, from, found[1].start - 1) \o replacement
           \o ReplaceFrom(Tail(found), s, found[1].end, replacement)

replaceAll(pattern, s, replacement) ==
    ReplaceFrom(MatchAll(pattern, s, 1), s, 1, replacement)

\* String.prototype.split(/pattern/) for a pattern that matches no empty
\* string: the pieces between the matches
RECURSIVE SplitFrom(_, _, _)
SplitFrom(found, s, from) ==
    IF found = <<>> THEN <<SubSeq(s, from, Len(s))>>
    ELSE <<SubSeq(s, from, found[1].start - 1)>>
           \o SplitFrom(Tail(found), s, found[1].end)

split(pattern, s) ==
    IF s = <<>> THEN << <<>> >> ELSE SplitFrom(MatchAll(pattern, s, 1), s, 1)

(***************************************************************************)
(* POST /api/documents/upload: text extraction                             *)
(***************************************************************************)
\* bytes of the UTF-8 encoding of a code unit (a surrogate pair is 4 bytes)
Utf8Width(c) ==
    IF c \in PrintableAscii \cup {"\n", "\r", "\t", "\f", NullChar, "U+0060"}
        THEN 1
    ELSE IF c \in LatinExtended \cup Surrogates THEN 2
    ELSE 3

byteLength(s) ==
    Len(s) + Cardinality({ k \in 1..Len(s) : Utf8Width(s[k]) >= 2 })
           + Cardinality({ k \in 1..Len(s) : Utf8Width(s[k]) = 3 })

\* (bytes / 1024).toFixed(2): bytes / 1024 is exact in binary, and toFixed
\* takes the nearest multiple of 0.01, the larger one on a tie
toFixed2(bytes) ==
    LET hundredths == (bytes * 100 + 512) \div 1024
    IN  NatToString(hundredths \div 100) \o <<".">>
          \o <<Digits[((hundredths \div 10) % 10) + 1],
               Digits[(hundredths % 10) + 1]>>

\* path.extname: from the last "." of the name, "" when there is none or
\* the name starts with its only "."
extname(name) ==
    LET dots == { k \in 1..Len(name) : name[k] = "." }
    IN  IF dots = {} THEN <<>>
        ELSE LET last == CHOOSE k \in dots : \A j \in dots : j <= k
             IN  IF last = 1 THEN <<>> ELSE SubSeq(name, last, Len(name))

\* String.prototype.substring(1)
substring1(s) == IF s = <<>> THEN <<>> ELSE Tail(s)

NativeViewProperly ==
    <<"T", "o", " ", "v", "i", "e", "w", " ", "t", "h", "e", " ", "d", "o",
      "c", "u", "m", "e", "n", "t", " ", "p", "r", "o", "p", "e", "r", "l",
      "y", ",", " ", "p", "l", "e", "a", "s", "e", " ", "u", "s", "e", " ",
      "t", "h", "e", " ", "N", "a", "t", "i", "v", "e", " ", "V", "i", "e",
      "w", " ", "t", "a", "b", ".", "\n", "\n">>

FileSizeLabel ==
    <<"F", "i", "l", "e", " ", "s", "i", "z", "e", ":", " ">>

KbUnit ==
    <<" ", "K", "B">>

FileSizeLine(bytes) == FileSizeLabel \o toFixed2(bytes) \o KbUnit

TextFilePlaceholder ==
    <<"T", "h", "i", "s", " ", "t", "e", "x", "t", " ", "f", "i", "l", "e",
      " ", "a", "p", "p", "e", "a", "r", "s", " ", "t", "o", " ", "b", "e",
      " ", "e", "m", "p", "t", "y", " ", "o", "r", " ", "i", "n", " ", "a",
      "n", " ", "u", "n", "s", "u", "p", "p", "o", "r", "t", "e", "d", " ",
      "f", "o", "r", "m", "a", "t", ".">>

\* `\n\n--- PDF Document: ${title} ---\n` + `File size: ${...} KB\n`
PdfFooter(title, bytes) ==
    <<"\n", "\n", "-", "-", "-", " ", "P", "D", "F", " ", "D", "o", "c",
      "u", "m", "e", "n", "t", ":", " ">>
      \o title \o
    <<" ", "-", "-", "-", "\n">>
      \o FileSizeLine(bytes) \o <<"\n">>

PdfLimitedPlaceholder(title, bytes) ==
    <<"T", "h", "e", " ", "P", "D", "F", " ", "f", "i", "l", "e", " ", "\"">>
      \o title \o
    <<"\"", " ", "a", "p", "p", "e", "a", "r", "s", " ", "t", "o", " ", "c",
      "o", "n", "t", "a", "i", "n", " ", "l", "i", "m", "i", "t", "e", "d",
      " ", "e", "x", "t", "r", "a", "c", "t", "a", "b", "l", "e", " ", "t",
      "e", "x", "t", " ", "c", "o", "n", "t", "e", "n", "t", ".", "\n", "\n">>
      \o NativeViewProperly \o FileSizeLine(bytes)

PdfImagePlaceholder(title, bytes) ==
    <<"T", "h", "e", " ", "P", "D", "F", " ", "f", "i", "l", "e", " ", "\"">>
      \o title \o
    <<"\"", " ", "a", "p", "p", "e", "a", "r", "s", " ", "t", "o", " ", "b",
      "e", " ", "i", "m", "a", "g", "e", "-", "b", "a", "s", "e", "d", " ",
      "o", "r", " ", "c", "o", "n", "t", "a", "i", "n", "s", " ", "n", "o",
      " ", "e", "x", "t", "r", "a", "c", "t", "a", "b", "l", "e", " ", "t",
      "e", "x", "t", ".", "\n", "\n">>
      \o NativeViewProperly \o FileSizeLine(bytes)

PdfErrorPlaceholder(title, bytes) ==
    <<"E", "r", "r", "o", "r", " ", "p", "r", "o", "c", "e", "s", "s", "i",
      "n", "g", " ", "P", "D", "F", " ", "f", "i", "l", "e", " ", "\"">>
      \o title \o
    <<"\"", ".", "\n", "\n", "T", "h", "e", " ", "f", "i", "l", "e", " ",
      "w", "a", "s", " ", "u", "p", "l", "o", "a", "d", "e", "d", " ", "s",
      "u", "c", "c", "e", "s", "s", "f", "u", "l", "l", "y", " ", "b", "u",
      "t", " ", "t", "e", "x", "t", " ", "e", "x", "t", "r", "a", "c", "t",
      "i", "o", "n", " ", "f", "a", "i", "l", "e", "d", ".", "\n", "\n",
      "T", "o", " ", "v", "i", "e", "w", " ", "t", "h", "e", " ", "d", "o",
      "c", "u", "m", "e", "n", "t", ",", " ", "p", "l", "e", "a", "s", "e",
      " ", "u", "s", "e", " ", "t", "h", "e", " ", "N", "a", "t", "i", "v",
      "e", " ", "V", "i", "e", "w", " ", "t", "a", "b", ".", "\n", "\n">>
      \o FileSizeLine(bytes)

WordHeading(title) ==
    <<"W", "o", "r", "d", " ", "D", "o", "c", "u", "m", "e", "n", "t", ":",
      " ">> \o title \o <<"\n", "\n">>

NativeViewFormatting ==
    <<"T", "o", " ", "v", "i", "e", "w", " ", "t", "h", "e", " ", "d", "o",
      "c", "u", "m", "e", "n", "t", " ", "w", "i", "t", "h", " ", "a", "l",
      "l", " ", "f", "o", "r", "m", "a", "t", "t", "i", "n", "g", ",", " ",
      "p", "l", "e", "a", "s", "e", " ", "u", "s", "e", " ", "t", "h", "e",
      " ", "N", "a", "t", "i", "v", "e", " ", "V", "i", "e", "w", " ", "t",
      "a", "b", ".", "\n", "\n">>

DocxEmptyPlaceholder(title, bytes) ==
    WordHeading(title) \o
    <<"T", "h", "i", "s", " ", "d", "o", "c", "u", "m", "e", "n", "t", " ",
      "a", "p", "p", "e", "a", "r", "s", " ", "t", "o", " ", "b", "e", " ",
      "e", "m", "p", "t", "y", " ", "o", "r", " ", "c", "o", "n", "t", "a",
      "i", "n", "s", " ", "n", "o", " ", "e", "x", "t", "r", "a", "c", "t",
      "a", "b", "l", "e", " ", "t", "e", "x", "t", " ", "c", "o", "n", "t",
      "e", "n", "t", ".", "\n", "\n">>
      \o NativeViewFormatting \o FileSizeLine(bytes)

DocxFailedPlaceholder(title, bytes) ==
    WordHeading(title) \o
    <<"T", "h", "i", "s", " ", "d", "o", "c", "u", "m", "e", "n", "t", " ",
      "w", "a", "s", " ", "u", "p", "l", "o", "a", "d", "e", "d", " ", "i",
      "n", " ", "M", "i", "c", "r", "o", "s", "o", "f", "t", " ", "W", "o",
      "r", "d", " ", "f", "o", "r", "m", "a", "t", " ", "b", "u", "t", " ",
      "t", "e", "x", "t", " ", "e", "x", "t", "r", "a", "c", "t", "i", "o",
      "n", " ", "f", "a", "i", "l", "e", "d", ".", "\n", "\n">>
      \o NativeViewFormatting \o FileSizeLine(bytes)

DocPlaceholder(title, bytes) ==
    WordHeading(title) \o
    <<"T", "h", "i", "s", " ", "d", "o", "c", "u", "m", "e", "n", "t", " ",
      "w", "a", "s", " ", "u", "p", "l", "o", "a", "d", "e", "d", " ", "i",
      "n", " ", "t", "h", "e", " ", "o", "l", "d", "e", "r", " ", "M", "i",
      "c", "r", "o", "s", "o", "f", "t", " ", "W", "o", "r", "d", " ", "D",
      "O", "C", " ", "f", "o", "r", "m", "a", "t", ".", "\n", "\n">>
      \o NativeViewProperly \o FileSizeLine(bytes)

ExcelPlaceholder(title, bytes) ==
    <<"E", "x", "c", "e", "l", " ", "S", "p", "r", "e", "a", "d", "s", "h",
      "e", "e", "t", ":", " ">> \o title \o
    <<"\n", "\n", "T", "h", "i", "s", " ", "d", "o", "c", "u", "m", "e",
      "n", "t", " ", "w", "a", "s", " ", "u", "p", "l", "o", "a", "d", "e",
      "d", " ", "i", "n", " ", "M", "i", "c", "r", "o", "s", "o", "f", "t",
      " ", "E", "x", "c", "e", "l", " ", "f", "o", "r", "m", "a", "t", ".",
      " ", "E", "x", "c", "e", "l", " ", "f", "i", "l", "e", "s", " ", "t",
      "y", "p", "i", "c", "a", "l", "l", "y", " ", "c", "o", "n", "t", "a",
      "i", "n", " ", "t", "a", "b", "l", "e", "s", " ", "o", "f", " ", "d",
      "a", "t", "a", " ", "o", "r", "g", "a", "n", "i", "z", "e", "d", " ",
      "i", "n", " ", "c", "e", "l", "l", "s", ",", " ", "f", "o", "r", "m",
      "u", "l", "a", "s", ",", " ", "a", "n", "d", " ", "m", "u", "l", "t",
      "i", "p", "l", "e", " ", "w", "o", "r", "k", "s", "h", "e", "e", "t",
      "s", ".", "\n", "\n", "Y", "o", "u", " ", "c", "a", "n", " ", "v",
      "i", "e", "w", " ", "t", "h", "e", " ", "o", "r", "i", "g", "i", "n",
      "a", "l", " ", "E", "x", "c", "e", "l", " ", "f", "i", "l", "e", " ",
      "b", "y", " ", "c", "l", "i", "c", "k", "i", "n", "g", " ", "t", "h",
      "e", " ", "\"", "N", "a", "t", "i", "v", "e", " ", "V", "i", "e", "w",
      "\"", " ", "t", "a", "b", " ", "a", "b", "o", "v", "e", ".", "\n",
      "\n">>
      \o FileSizeLine(bytes)

BinaryPlaceholder(fileExt, title, bytes) ==
    toUpperCase(fileExt) \o
    <<" ", "F", "i", "l", "e", ":", " ">> \o title \o
    <<"\n", "\n", "T", "h", "i", "s", " ", "d", "o", "c", "u", "m", "e",
      "n", "t", " ", "w", "a", "s", " ", "u", "p", "l", "o", "a", "d", "e",
      "d", " ", "i", "n", " ">> \o toUpperCase(fileExt) \o
    <<" ", "f", "o", "r", "m", "a", "t", ".", "\n", "\n", "T", "h", "i",
      "s", " ", "f", "i", "l", "e", " ", "t", "y", "p", "e", " ", "c", "a",
      "n", "n", "o", "t", " ", "b", "e", " ", "d", "i", "s", "p", "l", "a",
      "y", "e", "d", " ", "a", "s", " ", "t", "e", "x", "t", " ", "i", "n",
      " ", "t", "h", "e", " ", "d", "o", "c", "u", "m", "e", "n", "t", " ",
      "v", "i", "e", "w", "e", "r", ".", "\n", "\n", "Y", "o", "u", " ",
      "c", "a", "n", " ", "d", "o", "w", "n", "l", "o", "a", "d", " ", "t",
      "h", "e", " ", "o", "r", "i", "g", "i", "n", "a", "l", " ", "f", "i",
      "l", "e", " ", "b", "y", " ", "c", "l", "i", "c", "k", "i", "n", "g",
      " ", "t", "h", "e", " ", "\"", "N", "a", "t", "i", "v", "e", " ", "V",
      "i", "e", "w", "\"", " ", "t", "a", "b", " ", "a", "b", "o", "v", "e",
      ".", "\n", "\n">>
      \o FileSizeLine(bytes)

EmptyFallback(title) ==
    <<"T", "h", "e", " ", "c", "o", "n", "t", "e", "n", "t", " ", "f", "o",
      "r", " ", "\"">> \o title \o
    <<"\"", " ", "c", "o", "u", "l", "d", " ", "n", "o", "t", " ", "b", "e",
      " ", "e", "x", "t", "r", "a", "c", "t", "e", "d", ".", " ", "P", "l",
      "e", "a", "s", "e", " ", "u", "s", "e", " ", "t", "h", "e", " ", "N",
      "a", "t", "i", "v", "e", " ", "V", "i", "e", "w", " ", "t", "a", "b",
      " ", "t", "o", " ", "d", "o", "w", "n", "l", "o", "a", "d", " ", "a",
      "n", "d", " ", "v", "i", "e", "w", " ", "t", "h", "e", " ", "o", "r",
      "i", "g", "i", "n", "a", "l", " ", "f", "i", "l", "e", ".">>

\* /\(([^)]{3,})\)/g
textRegex == <<Cls({"("}, 1, 1), NotCls({")"}, 3, -1), Cls({")"}, 1, 1)>>

\* /^[0-9.\s]+$/
digitsDotsSpaces ==
    <<LineStart, Cls(DigitChars \cup {"."} \cup WhitespaceChars, 1, -1),
      LineEnd>>

\* /\s+/g
whitespaceRun == <<Cls(WhitespaceChars, 1, -1)>>

\* /\r\n|\r|\n/g
lineBreak == <<Alt(<<Lit(<<"\r", "\n">>), Lit(<<"\r">>), Lit(<<"\n">>)>>)>>

\* /\s{2,}|\n/
paragraphBreak == <<Alt(<< <<Cls(WhitespaceChars, 2, -1)>>, Lit(<<"\n">>) >>)>>

\* /\[((?:[^[\]]+|\[[^\]]*\])*)\]\s*TJ/g
tjRegex ==
    <<Cls({"["}, 1, 1),
      Star(<<Alt(<< <<NotCls({"[", "]"}, 1, -1)>>,
                    <<Cls({"["}, 1, 1), NotCls({"]"}, 0, -1),
                      Cls({"]"}, 1, 1)>> >>)>>),
      Cls({"]"}, 1, 1), Cls(WhitespaceChars, 0, -1)>> \o Lit(<<"T", "J">>)

\* /\(([^)]+)\)/g
tjPartRegex == <<Cls({"("}, 1, 1), NotCls({")"}, 1, -1), Cls({")"}, 1, 1)>>

StructureTokens ==
    { <<"P", "D", "F">>, <<"o", "b", "j">>,
      <<"s", "t", "r", "e", "a", "m">>,
      <<"A", "c", "r", "o", "b", "a", "t">>, <<"A", "d", "o", "b", "e">> }

\* match.substring(1, match.length - 1)
stripParens(match) == SubSeq(match, 2, Len(match) - 1)

\* dataBuffer.toString('utf8', 0, Math.min(dataBuffer.length, 30000))
pdfStringOf(file) ==
    IF byteLength(file) <= 30000 THEN file
    ELSE SubSeq(file, 1,
                CHOOSE k \in 0..Len(file) :
                    /\ byteLength(SubSeq(file, 1, k)) <= 30000
                    /\ \A j \in (k + 1)..Len(file) :
                          byteLength(SubSeq(file, 1, j)) > 30000)

\* a plausible variant: the filter keeps what the scan finds, fragments of
\* three characters included
keepFragment_fromThree(text) ==
    /\ Len(text) >= 3
    /\ \A token \in StructureTokens : ~includes(text, token)
    /\ ~test(digitsDotsSpaces, text)

\* the filter callback of stage 1
keepFragment(text) ==
    /\ Len(text) > 3
    /\ \A token \in StructureTokens : ~includes(text, token)
    /\ ~test(digitsDotsSpaces, text)

\* stage 1: the fragments that survive, and the text they are joined into
filterFragments(matches) ==
    IF Len(matches) > 5
    THEN SelectSeq([j \in 1..Len(matches) |-> stripParens(matches[j])],
                   keepFragment)
    ELSE <<>>

stage1Survivors(pdfString) == filterFragments(MatchTexts(textRegex, pdfString))

stage1Text(pdfString) == join(stage1Survivors(pdfString), <<" ">>)

\* the clean-up of an accepted stage-1 text
\* a plausible slip: line breaks normalised, whitespace runs left as found
cleanText_runsKept(extractedText) ==
    trim(replaceAll(lineBreak, extractedText, <<"\n">>))

cleanText(extractedText) ==
    trim(replaceAll(lineBreak,
                    replaceAll(whitespaceRun, extractedText, <<" ">>),
                    <<"\n">>))

stage1Lines(cleaned) == split(paragraphBreak, cleaned)

\* line => line.trim(), then the lines that are left non-empty, each
\* followed by an empty line
paragraphOf(trimmed) ==
    IF Len(trimmed) > 0 THEN trimmed \o <<"\n", "\n">> ELSE <<>>

structureOf(lines) ==
    Concat([j \in 1..Len(lines) |-> paragraphOf(trim(lines[j]))])

\* structuredText || extractedText
orElse(structuredText, cleaned) ==
    IF structuredText # <<>> THEN structuredText ELSE cleaned

structuredBody(cleaned) == orElse(structureOf(stage1Lines(cleaned)), cleaned)

stage1Body(extractedText) == structuredBody(cleanText(extractedText))

\* stage 2: what one TJ match adds to tjText
closingBracket(match) ==
    CHOOSE k \in 1..Len(match) :
        /\ match[k] = "]"
        /\ \A j \in 1..(k - 1) : match[j] # "]"

joinParts(textParts) ==
    IF textParts = <<>> THEN <<>>
    ELSE join([j \in 1..Len(textParts) |-> stripParens(textParts[j])],
              <<" ">>) \o <<" ">>

tjContribution(match) ==
    joinParts(MatchTexts(tjPartRegex,
                         SubSeq(match, 2, closingBracket(match) - 1)))

tjMatchesOf(pdfString) == MatchTexts(tjRegex, pdfString)

tjTextOf(tjMatches) ==
    Concat([j \in 1..Len(tjMatches) |-> tjContribution(tjMatches[j])])

\* a plausible slip: the placeholder for thin TJ text carries the footer too
pdfStage2_footerEverywhere(extractedText, tjText, title, bytes) ==
    IF Len(tjText) > 100
    THEN [stage |-> "stage2", joined |-> extractedText, tjText |-> tjText,
          text |-> trim(replaceAll(whitespaceRun, tjText, <<" ">>))
                     \o PdfFooter(title, bytes)]
    ELSE [stage |-> "limited", joined |-> extractedText, tjText |-> tjText,
          text |-> PdfLimitedPlaceholder(title, bytes)
                     \o PdfFooter(title, bytes)]

\* lines 189-218: TJ operators were found; their text is kept when it is
\* longer than 100 characters
pdfStage2(extractedText, tjText, title, bytes) ==
    IF Len(tjText) > 100
    THEN [stage |-> "stage2", joined |-> extractedText, tjText |-> tjText,
          text |-> trim(replaceAll(whitespaceRun, tjText, <<" ">>))
                     \o PdfFooter(title, bytes)]
    ELSE [stage |-> "limited", joined |-> extractedText, tjText |-> tjText,
          text |-> PdfLimitedPlaceholder(title, bytes)]

\* lines 160-225: the stages, given the joined stage-1 text and the TJ
\* matches of the file
pdfStages(readOk, extractedText, tjMatches, title, bytes) ==
    IF ~readOk
        THEN [stage |-> "error", joined |-> <<>>, tjText |-> <<>>,
              text |-> PdfErrorPlaceholder(title, bytes)]
    ELSE IF extractedText # <<>> /\ Len(extractedText) > 100
        THEN [stage |-> "stage1", joined |-> extractedText, tjText |-> <<>>,
              text |-> stage1Body(extractedText) \o PdfFooter(title, bytes)]
    ELSE IF Len(tjMatches) > 0
        THEN pdfStage2(extractedText, tjTextOf(tjMatches), title, bytes)
    ELSE [stage |-> "image", joined |-> extractedText, tjText |-> <<>>,
          text |-> PdfImagePlaceholder(title, bytes)]

\* the pdf branch: the text it leaves in extractedContent and the stage
\* that produced it, with the values of extractedText (the joined stage-1
\* fragments) and tjText it went through
extractPdf(file, title, readOk) ==
    pdfStages(readOk, stage1Text(pdfStringOf(file)),
              tjMatchesOf(pdfStringOf(file)), title, byteLength(file))

\* req.body's title, defaulting to the uploaded file's name
titleOf(req) == IF req.title.isNull THEN req.originalname ELSE req.title.value

\* path.extname(req.file.originalname).toLowerCase().substring(1)
fileExtOf(req) == substring1(toLowerCase(extname(req.originalname)))

\* content || ""
suppliedContent(req) == IF req.content.isNull THEN <<>> ELSE req.content.value

\* what the pdf branch went through, when it was not taken
NoPdf == [stage |-> "none", joined |-> <<>>, tjText |-> <<>>, text |-> <<>>]

\* the pdf branch's result
pdfBranch(pdf) ==
    [branch |-> "pdf", pdf |-> [pdf EXCEPT !.text = <<>>], text |-> pdf.text]

\* lines 104-323: extractedContent after the dispatch on the extension,
\* with the branch (and pdf stage) that produced it.  env tells what the
\* file system and mammoth did: readOk, and mammoth's outcome (it threw,
\* or the value of its result).
dispatchOn(req, env, fileExt, title, bytes) ==
    IF suppliedContent(req) # <<>>
        THEN [branch |-> "supplied", pdf |-> NoPdf,
              text |-> suppliedContent(req)]
    ELSE IF fileExt \in { <<"t", "x", "t">>, <<"c", "s", "v">> }
        THEN [branch |-> "text", pdf |-> NoPdf,
              text |-> IF env.readOk THEN req.file ELSE TextFilePlaceholder]
    ELSE IF fileExt = <<"p", "d", "f">>
        THEN pdfBranch(extractPdf(req.file, title, env.readOk))
    ELSE IF fileExt = <<"d", "o", "c", "x">>
        THEN [branch |-> "docx", pdf |-> NoPdf,
              text |-> IF ~env.readOk \/ env.mammoth.threw
                           THEN DocxFailedPlaceholder(title, bytes)
                       ELSE IF env.mammoth.value # <<>>
                               /\ Len(trim(env.mammoth.value)) > 0
                           THEN env.mammoth.value
                       ELSE DocxEmptyPlaceholder(title, bytes)]
    ELSE IF fileExt = <<"d", "o", "c">>
        THEN [branch |-> "doc", pdf |-> NoPdf,
              text |-> DocPlaceholder(title, bytes)]
    ELSE IF fileExt \in { <<"x", "l", "s", "x">>, <<"x", "l", "s">> }
        THEN [branch |-> "excel", pdf |-> NoPdf,
              text |-> ExcelPlaceholder(title, bytes)]
    ELSE [branch |-> "other", pdf |-> NoPdf,
          text |-> IF env.readOk /\ req.file # <<>>
                        /\ ~includes(req.file, <<NullChar>>)
                   THEN req.file
                   ELSE BinaryPlaceholder(fileExt, title, bytes)]

dispatchExtraction(req, env) ==
    dispatchOn(req, env, fileExtOf(req), titleOf(req), byteLength(req.file))

\* lines 325-328: the fallback for a text that is still empty or blank
orFallback(extractedContent, title) ==
    IF extractedContent = <<>> \/ trim(extractedContent) = <<>>
    THEN EmptyFallback(title) ELSE extractedContent

\* the dispatched result with the fallback applied to its text
withFallback(dispatched, title) ==
    [dispatched EXCEPT !.text = orFallback(@, title)]

\* a plausible slip: a read error in the text branch is not caught there
\* and reaches the handler's outer catch
extractContent_uncaught(req, env) ==
    IF /\ suppliedContent(req) = <<>>
       /\ fileExtOf(req) \in { <<"t", "x", "t">>, <<"c", "s", "v">> }
       /\ ~env.readOk
    THEN NoResult
    ELSE Result(withFallback(dispatchExtraction(req, env), titleOf(req)))

\* lines 104-328: extraction completes with a text (no branch lets an
\* error out)
extractContent(req, env) ==
    Result(withFallback(dispatchExtraction(req, env), titleOf(req)))

\* the characters the last replace of the sanitizer keeps: \x20-\x7E, \x0A,
\* \x0D and U+00A0..U+024F
KeptChars == PrintableAscii \cup {"\n", "\r"} \cup LatinExtended

IsNotNull(c) == c # NullChar
IsNotSurrogate(c) == c \notin Surrogates

\* a plausible slip: the sanitizer stops after the two removals
sanitize_removalsOnly(extractedContent) ==
    IF extractedContent = <<>> THEN <<>>
    ELSE SelectSeq(SelectSeq(extractedContent, IsNotNull), IsNotSurrogate)

\* lines 364-372: sanitizedContent
sanitize(extractedContent) ==
    IF extractedContent = <<>> THEN <<>>
    ELSE LET removed == SelectSeq(SelectSeq(extractedContent, IsNotNull),
                                  IsNotSurrogate)
         IN  [j \in 1..Len(removed) |->
                 IF removed[j] \in KeptChars THEN removed[j] ELSE " "]

(***************************************************************************)
(* SpecUpload: one upload request through the handler                      *)
(***************************************************************************)
MaxLong == 2
MaxShort == 3
MaxTj == 2

LongA ==
    <<"T", "h", "e", " ", "q", "u", "i", "c", "k", " ", "b", "r", "o", "w",
      "n", " ", "f", "o", "x", " ", "j", "u", "m", "p", "s", " ", "o", "v",
      "e", "r", " ", "t", "h", "e", " ", "l", "a", "z", "y", " ", "d", "o",
      "g", " ", "a", "g", "a", "i", "n", ".">>

LongB ==
    <<"P", "a", "c", "k", " ", "m", "y", " ", "b", "o", "x", "\n", "w", "i",
      "t", "h", " ", "f", "i", "v", "e", " ", " ", "o", "z", "e", "n", "\t",
      "l", "i", "q", "u", "o", "r", " ", "j", "u", "g", "s", " ", "r", "i",
      "g", "h", "t", " ", "n", "o", "w">>

TjFirst ==
    <<"H", "e", "l", "l", "o", " ", "f", "r", "o", "m", " ", "t", "h", "e",
      " ", "f", "i", "r", "s", "t", " ", "p", "a", "r", "t">>

TjSecond ==
    <<"a", "n", "d", " ", "f", "r", "o", "m", " ", "t", "h", "e", " ", "s",
      "e", "c", "o", "n", "d", " ", "p", "a", "r", "t">>

Paren(text) == <<"(">> \o text \o <<")", " ">>
Rep(piece, n) == Concat([j \in 1..n |-> piece])

\* a PDF content stream: a header, then shown strings (two long ones, a
\* three-character one, a numeric one and one naming a PDF object) and
\* TJ arrays, each a given number of times
PdfFile(longA, short, longB, noise, tj) ==
    <<"%", "P", "D", "F", "-", "1", ".", "4", "\n">>
      \o Rep(Paren(LongA), longA)
      \o Rep(Paren(<<"a", "b", "c">>), short)
      \o Rep(Paren(LongB), longB)
      \o Rep(Paren(<<"1", "2", ".", "5", " ", "3">>), noise)
      \o Rep(Paren(<<"e", "n", "d", "o", "b", "j">>), noise)
      \o Rep(<<"[", "(">> \o TjFirst \o <<")", " ", "-", "3", " ", "(">>
               \o TjSecond \o <<")", "]", " ", "T", "J", "\n">>, tj)

PdfFiles ==
    { PdfFile(a, b, c, d, f) :
        a \in 0..MaxLong, b \in 0..MaxShort, c \in 0..MaxLong,
        d \in 0..1, f \in 0..MaxTj }

\* what other files decode to: nothing, blanks, a null character, an
\* emoji (a surrogate pair), text, text with a null character, text with
\* a tab and a CJK character; and one of the PDF streams
OtherFiles ==
    { <<>>, <<" ", "\n">>, <<NullChar>>, <<"U+D83D", "U+DE00">>,
      <<"H", "i", " ", "é">>, <<"P", "K", NullChar, "x">>,
      <<"a", "\t", "U+4E2D">>, PdfFile(0, 0, 0, 0, 2) }

FileNames ==
    { <<"f", ".">> \o ext :
        ext \in { <<"t", "x", "t">>, <<"c", "s", "v">>, <<"p", "d", "f">>,
                  <<"P", "D", "F">>, <<"d", "o", "c", "x">>, <<"d", "o", "c">>,
                  <<"x", "l", "s", "x">>, <<"x", "l", "s">>,
                  <<"p", "p", "t", "x">>, <<"p", "p", "t">>,
                  <<"m", "s", "g">>, <<"e", "m", "l">> } }

Titles == { Null, Some(<<"T", "é">>) }
ContentFields ==
    { Null, Some(<<>>), Some(<<"c">>), Some(<<" ">>), Some(<<NullChar>>) }

UploadRequests ==
    [hasFile : {TRUE}, originalname : FileNames, file : OtherFiles,
     title : Titles, content : ContentFields, metadata : {"absent"}]
    \cup
    [hasFile : {TRUE}, originalname : {<<"f", ".", "p", "d", "f">>},
     file : PdfFiles, title : {Some(<<"T", "é">>)}, content : {Null},
     metadata : {"absent"}]
    \cup
    [hasFile : BOOLEAN, originalname : {<<"f", ".", "t", "x", "t">>},
     file : {<<"H", "i", " ", "é">>}, title : {Null}, content : {Null},
     metadata : {"absent", "json", "invalid"}]

MammothValues == { <<>>, <<" ", "\n">>, <<"D", "e", "a", "r">> }
MammothOutcomes ==
    { [threw |-> TRUE, value |-> <<>>] }
      \cup { [threw |-> FALSE, value |-> v] : v \in MammothValues }

\* what the file system and mammoth can do to a request; mammoth is only
\* called for docx
UploadEnvs(req) ==
    { env \in [readOk : BOOLEAN, mammoth : MammothOutcomes] :
        \/ fileExtOf(req) = <<"d", "o", "c", "x">>
        \/ env.mammoth = [threw |-> TRUE, value |-> <<>>] }

\* the handler's position and what it has computed: extracted is
\* extractedContent, content the sanitized text handed to createDocument,
\* created tells whether createDocument was called
UploadIdle == [pc |-> "received", status |-> 0, branch |-> "none",
               pdf |-> NoPdf, extracted |-> <<>>, content |-> <<>>,
               created |-> FALSE,
               env |-> [readOk |-> TRUE,
                        mammoth |-> [threw |-> TRUE, value |-> <<>>]],
               tagged |-> FALSE]

InitUpload ==
    /\ upReq \in UploadRequests
    /\ upResult = UploadIdle
    /\ IdleBates /\ IdleExport /\ IdleLedger /\ IdleProd /\ IdleView
    /\ IdlePii /\ IdlePage

UploadUnchanged ==
    UNCHANGED <<upReq, batesVars, exportVars, ledgerVars, prodVars, viewVars,
                piiVars, pageVars>>

\* what the handler has done when it reaches storage.createDocument, or
\* has answered before: the missing-file check, the outcome of the
\* extraction, sanitization and the metadata parse; anything thrown on the
\* way is answered by the outer catch
afterExtraction(req, env, extraction, before) ==
    IF ~req.hasFile
        THEN [before EXCEPT !.pc = "done", !.status = 400]
    ELSE IF ~extraction.defined
        THEN [before EXCEPT !.pc = "done", !.status = 500, !.env = env]
    ELSE IF req.metadata = "invalid"
        THEN [before EXCEPT !.pc = "done", !.status = 500, !.env = env,
                            !.branch = extraction.value.branch,
                            !.pdf = extraction.value.pdf,
                            !.extracted = extraction.value.text]
    ELSE [before EXCEPT !.pc = "creating", !.env = env, !.created = TRUE,
                        !.branch = extraction.value.branch,
                        !.pdf = extraction.value.pdf,
                        !.extracted = extraction.value.text,
                        !.content = sanitize(extraction.value.text)]

\* the handler up to its call of storage.createDocument
UploadExtract(env) ==
    /\ upResult.pc = "received"
    /\ upResult' = afterExtraction(upReq, env, extractContent(upReq, env),
                                   upResult)
    /\ UploadUnchanged

\* storage.createDocument settles, the auto-tagging runs (its errors are
\* swallowed), and the response is sent
UploadPersist(db, tag) ==
    /\ upResult.pc = "creating"
    /\ upResult' =
         IF db = "created"
             THEN [upResult EXCEPT !.pc = "done", !.status = 201,
                                   !.tagged = (tag = "tagged")]
         ELSE IF db = "invalid byte sequence for encoding"
             THEN [upResult EXCEPT !.pc = "done", !.status = 400]
         ELSE [upResult EXCEPT !.pc = "done", !.status = 500]
    /\ UploadUnchanged

DbOutcomes == {"created", "invalid byte sequence for encoding", "error"}
TagOutcomes == {"tagged", "no tag", "error"}

NextUpload ==
    \/ \E env \in UploadEnvs(upReq) : UploadExtract(env)
    \/ \E db \in DbOutcomes, tag \in TagOutcomes : UploadPersist(db, tag)

SpecUpload == InitUpload /\ [][NextUpload]_vars

(***************************************************************************)
(* Upload claims (SpecUpload)                                              *)
(***************************************************************************)
SupportedExtensions ==
    { <<"p", "d", "f">>, <<"d", "o", "c", "x">>, <<"d", "o", "c">>,
      <<"m", "s", "g">>, <<"e", "m", "l">>, <<"t", "x", "t">>,
      <<"x", "l", "s", "x">>, <<"x", "l", "s">>, <<"p", "p", "t", "x">>,
      <<"p", "p", "t">> }

\* C14: for every supported upload extension and any file bytes, the text
\* stored for the created document, after extraction and sanitization, is
\* a non-empty string.
C14_StoredTextNonEmpty ==
    ( /\ upResult.status = 201
      /\ fileExtOf(upReq) \in SupportedExtensions
      /\ suppliedContent(upReq) = <<>> )
    => upResult.content # <<>>

\* the error a branch can meet while it reads or parses the file: the read
\* fails, or mammoth throws (doc and xlsx/xls read and parse nothing)
ExtractionFailed(req, env) ==
    LET fileExt == fileExtOf(req)
    IN  /\ req.hasFile /\ suppliedContent(req) = <<>>
        /\ \/ ~env.readOk
                  /\ fileExt \notin { <<"d", "o", "c">>, <<"x", "l", "s">>,
                                      <<"x", "l", "s", "x">> }
           \/ env.mammoth.threw /\ fileExt = <<"d", "o", "c", "x">>

FailurePlaceholder(req) ==
    LET fileExt == fileExtOf(req)
        bytes == byteLength(req.file)
    IN  IF fileExt \in { <<"t", "x", "t">>, <<"c", "s", "v">> }
            THEN TextFilePlaceholder
        ELSE IF fileExt = <<"p", "d", "f">>
            THEN PdfErrorPlaceholder(titleOf(req), bytes)
        ELSE IF fileExt = <<"d", "o", "c", "x">>
            THEN DocxFailedPlaceholder(titleOf(req), bytes)
        ELSE BinaryPlaceholder(fileExt, titleOf(req), bytes)

\* C15: extraction failure is never fatal to an upload: in every branch an
\* error raised while reading or parsing the file is caught inside the
\* branch and replaced by the branch's placeholder, and the upload goes on
\* to persist the document (it is answered 201 once the insert succeeds).
C15_ExtractionFailureNotFatal ==
    (upResult.pc # "received" /\ ExtractionFailed(upReq, upResult.env)) =>
        /\ upResult.extracted = FailurePlaceholder(upReq)
        /\ upReq.metadata # "invalid" => upResult.created
        /\ (upResult.pc = "done" /\ upResult.created)
              => upResult.status \in {201, 400, 500}
        /\ upResult.status = 500 =>
              (upReq.metadata = "invalid" \/ upResult.created)

\* a PDF whose read failed and a docx on which mammoth threw, both stored
C15_Witness ==
    /\ upResult.status = 201
    /\ ExtractionFailed(upReq, upResult.env)
    /\ fileExtOf(upReq) \in { <<"p", "d", "f">>, <<"d", "o", "c", "x">>,
                              <<"t", "x", "t">> }
    /\ upResult.content # <<>>

\* C16: for spreadsheet and presentation files (xlsx, xls, pptx, ppt) the
\* extracted text is always a descriptive placeholder, whatever the file
\* bytes are: no byte of the file content appears in it.
C16_OfficePlaceholderOnly ==
    ( /\ upResult.pc # "received" /\ upReq.hasFile
      /\ suppliedContent(upReq) = <<>>
      /\ fileExtOf(upReq) \in { <<"x", "l", "s", "x">>, <<"x", "l", "s">>,
                                <<"p", "p", "t", "x">>, <<"p", "p", "t">> } )
    => /\ upResult.extracted
            \in { ExcelPlaceholder(titleOf(upReq), byteLength(upReq.file)),
                  BinaryPlaceholder(fileExtOf(upReq), titleOf(upReq),
                                    byteLength(upReq.file)),
                  EmptyFallback(titleOf(upReq)) }
       /\ upResult.extracted # upReq.file

\* the parenthesized fragments of a text, read off its parentheses: each
\* ")" closes the fragment opened by the first "(" after the ")" before it
ClosingAt(s) == { q \in 1..Len(s) : s[q] = ")" }

OpeningFor(s, q) ==
    LET previous == { k \in ClosingAt(s) : k < q }
        opens == { p \in 1..(q - 1) :
                     s[p] = "(" /\ \A k \in previous : k < p }
    IN  IF opens = {} THEN 0
        ELSE CHOOSE p \in opens : \A r \in opens : p <= r

FragmentEnds(s, minLength) ==
    { q \in ClosingAt(s) :
        OpeningFor(s, q) # 0 /\ q - OpeningFor(s, q) - 1 >= minLength }

\* the fragments of inner length >= minLength, in the order of the text
Fragments(s, minLength) ==
    LET ends == FragmentEnds(s, minLength)
        nth(j) == CHOOSE q \in ends :
                      Cardinality({ r \in ends : r < q }) = j - 1
    IN  [j \in 1..Cardinality(ends) |->
            SubSeq(s, OpeningFor(s, nth(j)) + 1, nth(j) - 1)]

HasStructureToken(text) ==
    \/ includes(text, <<"P", "D", "F">>)
    \/ includes(text, <<"o", "b", "j">>)
    \/ includes(text, <<"s", "t", "r", "e", "a", "m">>)
    \/ includes(text, <<"A", "c", "r", "o", "b", "a", "t">>)
    \/ includes(text, <<"A", "d", "o", "b", "e">>)

OnlyDigitsAndWhitespace(text) ==
    \A k \in 1..Len(text) : text[k] \in DigitChars \cup WhitespaceChars

OnlyDigitsDotsAndWhitespace(text) ==
    \A k \in 1..Len(text) :
        text[k] \in DigitChars \cup {"."} \cup WhitespaceChars

ClaimedSurvivor(text) ==
    Len(text) >= 3 /\ ~HasStructureToken(text)
        /\ ~OnlyDigitsAndWhitespace(text)

ActualSurvivor(text) ==
    Len(text) >= 4 /\ ~HasStructureToken(text)
        /\ ~OnlyDigitsDotsAndWhitespace(text)

RECURSIVE JoinedWithSpaces(_)
JoinedWithSpaces(texts) ==
    IF Len(texts) = 0 THEN <<>>
    ELSE IF Len(texts) = 1 THEN texts[1]
    ELSE JoinedWithSpaces(SubSeq(texts, 1, Len(texts) - 1))
           \o <<" ">> \o texts[Len(texts)]

PdfStage1Ran ==
    /\ upResult.pc # "received" /\ upResult.branch = "pdf"
    /\ upResult.env.readOk

\* C17 as claimed: in PDF stage 1 every parenthesized fragment of length at
\* least 3 that contains none of "PDF", "obj", "stream", "Acrobat", "Adobe"
\* and is not made only of digits and whitespace survives the filter; the
\* survivors are joined with single spaces, and a joined text longer than
\* 100 characters is accepted, stage 2 not being attempted.
C17_FragmentsFromThreeSurvive ==
    PdfStage1Ran =>
        LET joined == JoinedWithSpaces(
                          SelectSeq(Fragments(upReq.file, 3), ClaimedSurvivor))
        IN  /\ upResult.pdf.joined = joined
            /\ Len(joined) > 100 => upResult.pdf.stage = "stage1"

\* C17, amended: when the scan finds more than five parenthesized fragments
\* of length at least 3, exactly those of length at least 4 that contain
\* none of the five tokens and are not made only of digits, dots and
\* whitespace survive (with five fragments or fewer nothing survives); the
\* survivors are joined with single spaces, and the joined text is accepted
\* as the extracted content, stage 2 not being attempted, exactly when it
\* is longer than 100 characters.
C17_Stage1Filter ==
    PdfStage1Ran =>
        LET found == Fragments(upReq.file, 3)
            joined == IF Len(found) > 5
                      THEN JoinedWithSpaces(SelectSeq(found, ActualSurvivor))
                      ELSE <<>>
        IN  /\ upResult.pdf.joined = joined
            /\ Len(joined) > 100 <=> upResult.pdf.stage = "stage1"
            /\ upResult.pdf.stage = "stage1" => upResult.pdf.tjText = <<>>

\* more than five fragments, one of three characters and a numeric one
\* dropped, and the joined text accepted
C17_Witness ==
    /\ PdfStage1Ran
    /\ upResult.pdf.stage = "stage1"
    /\ Len(Fragments(upReq.file, 3)) > 5
    /\ \E j \in 1..Len(Fragments(upReq.file, 3)) :
          Len(Fragments(upReq.file, 3)[j]) = 3
    /\ \E j \in 1..Len(Fragments(upReq.file, 3)) :
          /\ OnlyDigitsDotsAndWhitespace(Fragments(upReq.file, 3)[j])
          /\ ~OnlyDigitsAndWhitespace(Fragments(upReq.file, 3)[j])

EndsWith(s, t) ==
    Len(t) <= Len(s) /\ SubSeq(s, Len(s) - Len(t) + 1, Len(s)) = t

IsBlank(c) == c \in WhitespaceChars

\* no blank but the space, no two blanks in a row, none at either end
SingleSpaced(s) ==
    /\ s # <<>>
    /\ ~IsBlank(s[1]) /\ ~IsBlank(s[Len(s)])
    /\ \A k \in 1..(Len(s) - 1) :
          IsBlank(s[k]) => s[k] = " " /\ ~IsBlank(s[k + 1])

Visible(s) == SelectSeq(s, LAMBDA c : ~IsBlank(c))

FooterMarker ==
    <<"-", "-", "-", " ", "P", "D", "F", " ", "D", "o", "c", "u", "m", "e",
      "n", "t", ":">>

\* C18: for a PDF the result is the stage-1 text if stage 1 is accepted,
\* otherwise the stage-2 (TJ) text if its concatenation exceeds 100
\* characters, otherwise a placeholder; every non-placeholder result ends
\* with the provenance footer naming the document and its size, and no
\* placeholder carries that footer.
C18_PdfStagesAndFooter ==
    (upResult.pc # "received" /\ upResult.branch = "pdf") =>
        LET title == titleOf(upReq)
            bytes == byteLength(upReq.file)
            footer == PdfFooter(title, bytes)
            pdf == upResult.pdf
        IN  /\ upResult.env.readOk =>
                 pdf.stage = IF Len(pdf.joined) > 100 THEN "stage1"
                             ELSE IF Len(pdf.tjText) > 100 THEN "stage2"
                             ELSE IF pdf.stage = "image" THEN "image"
                             ELSE "limited"
            /\ ~upResult.env.readOk => pdf.stage = "error"
            /\ pdf.stage = "stage1" =>
                 /\ EndsWith(upResult.extracted, footer)
                 /\ IsPrefixOf(Visible(SubSeq(pdf.joined, 1, 20)),
                               Visible(upResult.extracted))
            /\ pdf.stage = "stage2" =>
                 /\ EndsWith(upResult.extracted, footer)
                 /\ IsPrefixOf(SubSeq(pdf.tjText, 1, 20), upResult.extracted)
            /\ pdf.stage \in {"limited", "image", "error"} =>
                 /\ ~includes(upResult.extracted, FooterMarker)
                 /\ upResult.extracted
                      \in { PdfLimitedPlaceholder(title, bytes),
                            PdfImagePlaceholder(title, bytes),
                            PdfErrorPlaceholder(title, bytes) }

\* a PDF that failed stage 1 and was extracted by stage 2
C18_Witness ==
    /\ upResult.status = 201 /\ upResult.branch = "pdf"
    /\ upResult.pdf.stage = "stage2"
    /\ Len(upResult.pdf.joined) <= 100
    /\ EndsWith(upResult.extracted,
                PdfFooter(titleOf(upReq), byteLength(upReq.file)))

\* C19: for every extraction branch, caller-supplied content included, the
\* stored text contains only printable ASCII, line feed, carriage return
\* and U+00A0-U+024F (so no null character and no surrogate), and
\* sanitizing it again returns it unchanged.
C19_StoredTextSanitized ==
    upResult.created =>
        /\ \A k \in 1..Len(upResult.content) :
              /\ upResult.content[k]
                   \in PrintableAscii \cup {"\n", "\r"} \cup LatinExtended
              /\ upResult.content[k] # NullChar
              /\ upResult.content[k] \notin Surrogates
        /\ sanitize(upResult.content) = upResult.content

\* a stored text whose extracted text held a tab and a CJK character
C19_Witness ==
    /\ upResult.status = 201
    /\ \E k \in 1..Len(upResult.extracted) :
          upResult.extracted[k] \in OtherChars
    /\ Len(upResult.content) = Len(upResult.extracted)
    /\ upResult.content # upResult.extracted

(***************************************************************************)
(* detectPII: the AI call and the regex fallback                           *)
(***************************************************************************)
Letters == UpperChars \cup LowerChars

\* [-.\s]
Separators == {"-", "."} \cup WhitespaceChars

\* /\b\d{3}[-.\s]?\d{3}[-.\s]?\d{4}\b/g
phonePattern ==
    <<WordBoundary, Cls(DigitChars, 3, 3), Cls(Separators, 0, 1),
      Cls(DigitChars, 3, 3), Cls(Separators, 0, 1), Cls(DigitChars, 4, 4),
      WordBoundary>>

\* /\b[A-Z0-9._%+-]+@[A-Z0-9.-]+\.[A-Z]{2,}\b/gi
emailPattern ==
    <<WordBoundary,
      Cls(Letters \cup DigitChars \cup {".", "_", "%", "+", "-"}, 1, -1),
      Cls({"@"}, 1, 1),
      Cls(Letters \cup DigitChars \cup {".", "-"}, 1, -1),
      Cls({"."}, 1, 1), Cls(Letters, 2, -1), WordBoundary>>

\* /\b\d{3}[-.\s]?\d{2}[-.\s]?\d{4}\b/g
ssnPattern ==
    <<WordBoundary, Cls(DigitChars, 3, 3), Cls(Separators, 0, 1),
      Cls(DigitChars, 2, 2), Cls(Separators, 0, 1), Cls(DigitChars, 4, 4),
      WordBoundary>>

\* /\b\d{5}(?:[-\s]\d{4})?\b/g
zipPattern ==
    <<WordBoundary, Cls(DigitChars, 5, 5),
      Opt(<<Cls({"-"} \cup WhitespaceChars, 1, 1), Cls(DigitChars, 4, 4)>>),
      WordBoundary>>

\* /\$\s*\d+(?:,\d{3})*(?:\.\d{2})?/g
amountPattern ==
    <<Cls({"$"}, 1, 1), Cls(WhitespaceChars, 0, -1), Cls(DigitChars, 1, -1),
      Star(<<Cls({","}, 1, 1), Cls(DigitChars, 3, 3)>>),
      Opt(<<Cls({"."}, 1, 1), Cls(DigitChars, 2, 2)>>)>>

\* /\b(?:\d{1,3}\.){3}\d{1,3}\b/g: the group has no capture, so its three
\* repetitions are three copies of it
octetDot == <<Cls(DigitChars, 1, 3), Cls({"."}, 1, 1)>>
ipPattern ==
    <<WordBoundary>> \o octetDot \o octetDot \o octetDot
      \o <<Cls(DigitChars, 1, 3), WordBoundary>>

\* /\b\d+\s+[A-Za-z\s]+(?:Avenue|...|Ter)\b[^,]*,?\s*[A-Za-z\s]+,\s*
\*  [A-Z]{2}\s*\d{5}(?:-\d{4})?\b/gi
streetSuffix ==
    Alt(<<
          LitI(<<"A", "v", "e", "n", "u", "e">>),
          LitI(<<"A", "v", "e">>),
          LitI(<<"S", "t", "r", "e", "e", "t">>),
          LitI(<<"S", "t">>),
          LitI(<<"R", "o", "a", "d">>),
          LitI(<<"R", "d">>),
          LitI(<<"B", "o", "u", "l", "e", "v", "a", "r", "d">>),
          LitI(<<"B", "l", "v", "d">>),
          LitI(<<"L", "a", "n", "e">>),
          LitI(<<"L", "n">>),
          LitI(<<"D", "r", "i", "v", "e">>),
          LitI(<<"D", "r">>),
          LitI(<<"W", "a", "y">>),
          LitI(<<"C", "o", "u", "r", "t">>),
          LitI(<<"C", "t">>),
          LitI(<<"P", "l", "a", "c", "e">>),
          LitI(<<"P", "l">>),
          LitI(<<"T", "e", "r", "r", "a", "c", "e">>),
          LitI(<<"T", "e", "r">>) >>)

addressPattern ==
    <<WordBoundary, Cls(DigitChars, 1, -1), Cls(WhitespaceChars, 1, -1),
      Cls(Letters \cup WhitespaceChars, 1, -1), streetSuffix, WordBoundary,
      NotCls({","}, 0, -1), Cls({","}, 0, 1), Cls(WhitespaceChars, 0, -1),
      Cls(Letters \cup WhitespaceChars, 1, -1), Cls({","}, 1, 1),
      Cls(WhitespaceChars, 0, -1), Cls(Letters, 2, 2),
      Cls(WhitespaceChars, 0, -1), Cls(DigitChars, 5, 5),
      Opt(<<Cls({"-"}, 1, 1), Cls(DigitChars, 4, 4)>>), WordBoundary>>

\* const patterns = [...]
FallbackPatterns ==
    << [pattern |-> phonePattern, reason |-> "Phone Number"],
       [pattern |-> emailPattern, reason |-> "Email Address"],
       [pattern |-> ssnPattern, reason |-> "SSN"],
       [pattern |-> zipPattern, reason |-> "Zip Code"],
       [pattern |-> amountPattern, reason |-> "Financial Amount"],
       [pattern |-> ipPattern, reason |-> "IP Address"],
       [pattern |-> addressPattern, reason |-> "Address"] >>

\* pattern.exec(content) with the g flag: the search starts at lastIndex
\* and finds the leftmost position the pattern matches at (0: null)
RECURSIVE searchFrom(_, _, _)
searchFrom(pattern, content, i) ==
    IF i > Len(content) + 1 THEN 0
    ELSE IF MatchAt(pattern, content, i) # 0 THEN i
    ELSE searchFrom(pattern, content, i + 1)

\* while ((match = pattern.exec(content)) !== null) piiResults.push(...):
\* each exec leaves lastIndex at the end of its match.  (No pattern of the
\* list matches the empty string, on which the loop would not advance.)
RECURSIVE execLoop(_, _, _, _)
execPush(pattern, reason, content, start, end) ==
    <<[text |-> SubSeq(content, start, end - 1), reason |-> reason]>>
      \o execLoop(pattern, reason, content, end)

execStep(pattern, reason, content, start) ==
    IF start = 0 THEN <<>>
    ELSE execPush(pattern, reason, content, start,
                  MatchAt(pattern, content, start))

execLoop(pattern, reason, content, lastIndex) ==
    execStep(pattern, reason, content, searchFrom(pattern, content, lastIndex))

\* a plausible variant: a text already reported is not reported again
RECURSIVE dropRepeated(_)
dropRepeated(list) ==
    IF list = <<>> THEN <<>>
    ELSE IF \E j \in 1..(Len(list) - 1) : list[j].text = list[Len(list)].text
        THEN dropRepeated(SubSeq(list, 1, Len(list) - 1))
    ELSE dropRepeated(SubSeq(list, 1, Len(list) - 1)) \o <<list[Len(list)]>>

regexFallback_deduplicated(content) ==
    dropRepeated(
        Concat([p \in 1..Len(FallbackPatterns) |->
                  execLoop(FallbackPatterns[p].pattern,
                           FallbackPatterns[p].reason, content, 1)]))

\* patterns.forEach(...): piiResults
regexFallback(content) ==
    Concat([p \in 1..Len(FallbackPatterns) |->
              execLoop(FallbackPatterns[p].pattern,
                       FallbackPatterns[p].reason, content, 1)])

\* data.redactions || []
redactionsOf(ai) == IF ai.redactions.defined THEN ai.redactions.value ELSE <<>>

\* a plausible variant: only the empty text is answered without a call
tooShort_emptyOnly(content) == content = <<>>

\* !content || content.length < 10
tooShort(content) == content = <<>> \/ Len(content) < 10

\* a plausible slip: the status check throws outside the try block
detectPII_statusUncaught(content, ai) ==
    IF tooShort(content) THEN Result([path |-> "short", list |-> <<>>])
    ELSE IF ai.kind = "ok"
        THEN Result([path |-> "ai", list |-> redactionsOf(ai)])
    ELSE IF ai.kind = "notOk" THEN NoResult
    ELSE Result([path |-> "fallback", list |-> regexFallback(content)])

\* detectPII: the candidates it resolves to and the path that gave them
\* (it never rejects: NoResult would be a rejection).  ai is what the call
\* of /api/ai/detect-pii did: it answered OK with a JSON body that is not
\* null ("ok"), fetch rejected ("network"), the status was not OK
\* ("notOk"), the body was not JSON ("unparsable"), or the body was null
\* ("nullBody": reading data.redactions throws inside the try block).
detectPII(content, ai) ==
    IF tooShort(content) THEN Result([path |-> "short", list |-> <<>>])
    ELSE IF ai.kind = "ok"
        THEN Result([path |-> "ai", list |-> redactionsOf(ai)])
    ELSE Result([path |-> "fallback", list |-> regexFallback(content)])

\* the handler of POST /api/ai/detect-pii, given what the OpenAI call did:
\* it threw ("throws"), its message was not JSON ("unparsable"), or it was
\* a JSON object, with an array under redactions or not ("object")
aiRoute(openai) ==
    IF openai.kind \in {"throws", "unparsable"}
    THEN [kind |-> "notOk", redactions |-> NoResult]
    ELSE [kind |-> "ok", redactions |-> Result(redactionsOf(openai))]

(***************************************************************************)
(* SpecPii: one call of detectPII                                          *)
(***************************************************************************)
MaxPiiItems == 2

ExampleText ==
    <<"C", "o", "n", "t", "a", "c", "t", " ", "j", "a", "n", "e", "@", "e",
      "x", "a", "m", "p", "l", "e", ".", "c", "o", "m", " ", "o", "r", " ",
      "5", "5", "5", "-", "1", "2", "3", "-", "4", "5", "6", "7">>

PhoneText ==
    <<"5", "5", "5", "-", "1", "2", "3", "-", "4", "5", "6", "7">>

EmailText ==
    <<"j", "a", "n", "e", "@", "e", "x", "a", "m", "p", "l", "e", ".", "c",
      "o", "m">>

ZipPlusFourText ==
    <<"1", "2", "3", "4", "5", " ", "6", "7", "8", "9">>

AddressText ==
    <<"1", "2", " ", "O", "a", "k", " ", "S", "t", ",", " ", "T", "r", "o",
      "y", ",", " ", "N", "Y", " ", "1", "2", "1", "8", "0">>

PiiItems ==
    { PhoneText, EmailText, ZipPlusFourText, AddressText,
      <<"1", "2", "3", "-", "4", "5", "-", "6", "7", "8", "9">>,
      <<"$", "1", ",", "2", "0", "0", ".", "5", "0">>,
      <<"1", "0", ".", "0", ".", "0", ".", "1">> }

RECURSIVE ItemRows(_)
ItemRows(n) ==
    IF n = 0 THEN { <<>> }
    ELSE { <<item>> \o row : item \in PiiItems, row \in ItemRows(n - 1) }

\* the texts: one to MaxPiiItems items joined by " or ", bare or after
\* "Contact "; and the empty text
PiiTexts ==
    { <<>> }
    \cup { prefix \o join(row, <<" ", "o", "r", " ">>) :
             prefix \in { <<>>, <<"C", "o", "n", "t", "a", "c", "t", " ">> },
             row \in UNION { ItemRows(n) : n \in 1..MaxPiiItems } }

AiRedactions ==
    { NoResult, Result(<<>>),
      Result(<<[text |-> EmailText, reason |-> "Email Address"]>>) }

OpenAiOutcomes ==
    [kind : {"throws", "unparsable"}, redactions : {NoResult}]
    \cup [kind : {"object"}, redactions : AiRedactions]

\* what the client's fetch can see: the route's answers, a rejected fetch,
\* or a body that did not come from the route (not JSON, null, or an
\* object without redactions)
AiOutcomes ==
    { aiRoute(openai) : openai \in OpenAiOutcomes }
    \cup [kind : {"network", "unparsable", "nullBody"}, redactions : {NoResult}]
    \cup { [kind |-> "ok", redactions |-> NoResult] }

InitPii ==
    /\ piContent \in PiiTexts
    /\ piResult = NoResult
    /\ piPc = "idle"
    /\ piAi = NotCalled
    /\ IdleBates /\ IdleExport /\ IdleLedger /\ IdleProd /\ IdleView
    /\ IdleUpload /\ IdlePage

PiiUnchanged ==
    UNCHANGED <<piContent, batesVars, exportVars, ledgerVars, prodVars,
                viewVars, uploadVars, pageVars>>

\* detectPII is called: a short text is answered at once, for any other
\* the request is sent and awaited
PiiCall ==
    /\ piPc = "idle"
    /\ IF tooShort(piContent)
       THEN /\ piResult' = detectPII(piContent, NotCalled)
            /\ piPc' = "done"
       ELSE /\ piResult' = piResult
            /\ piPc' = "awaiting"
    /\ piAi' = piAi
    /\ PiiUnchanged

\* the awaited fetch settles, and detectPII resolves
PiiSettle(ai) ==
    /\ piPc = "awaiting"
    /\ piAi' = ai
    /\ piResult' = detectPII(piContent, ai)
    /\ piPc' = "done"
    /\ PiiUnchanged

NextPii ==
    \/ PiiCall
    \/ \E ai \in AiOutcomes : PiiSettle(ai)

SpecPii == InitPii /\ [][NextPii]_vars

\* the call itself is taken whenever it is enabled; nothing makes the
\* endpoint answer
SpecPiiLive == SpecPii /\ WF_vars(PiiCall)

\* C20: when detectPII takes the regex fallback, its candidates come
\* grouped by pattern in the order phone, email, SSN, ZIP, currency, IPv4,
\* street address; the candidates of one pattern are its successive
\* non-overlapping matches from left to right, each tagged with the
\* pattern's category; a text that two patterns match is reported by
\* both; and "Contact jane@example.com or 555-123-4567" gives exactly the
\* phone number and the e-mail address.
CategoryOrder ==
    <<"Phone Number", "Email Address", "SSN", "Zip Code", "Financial Amount",
      "IP Address", "Address">>

CategoryRank(reason) ==
    CHOOSE k \in 1..Len(CategoryOrder) : CategoryOrder[k] = reason

TaggedTexts(list, k) ==
    LET tagged == SelectSeq(list, LAMBDA c : c.reason = CategoryOrder[k])
    IN  [j \in 1..Len(tagged) |-> tagged[j].text]

C20_FallbackGroupedByPattern ==
    (piResult.defined /\ piResult.value.path = "fallback") =>
        LET list == piResult.value.list
        IN  /\ \A j \in 1..Len(list) : list[j].reason
                    \in { CategoryOrder[k] : k \in 1..Len(CategoryOrder) }
            /\ \A j, k \in 1..Len(list) :
                  j < k => CategoryRank(list[j].reason)
                              <= CategoryRank(list[k].reason)
            /\ \A k \in 1..Len(CategoryOrder) :
                  TaggedTexts(list, k)
                    = MatchTexts(FallbackPatterns[k].pattern, piContent)
            /\ piContent = ExampleText =>
                  list = << [text |-> PhoneText, reason |-> "Phone Number"],
                            [text |-> EmailText, reason |-> "Email Address"] >>
            /\ piContent = ZipPlusFourText =>
                  list = << [text |-> ZipPlusFourText, reason |-> "SSN"],
                            [text |-> ZipPlusFourText, reason |-> "Zip Code"] >>

C20_Witness ==
    /\ piResult.defined
    /\ piResult.value.path = "fallback"
    /\ piContent = ExampleText
    /\ Len(piResult.value.list) = 2

\* C21: detectPII never rejects; when the call of the AI endpoint fails (a
\* rejected fetch, a status that is not OK, a body that is not JSON, and
\* also a null body) it resolves to the regex fallback's candidates for
\* the same text, and when the endpoint answers OK with a body it resolves
\* to the body's redactions (none when the body has none), whatever the
\* patterns would match.
AiFailures == {"network", "notOk", "unparsable", "nullBody"}

C21_FailureFallsBack ==
    piPc = "done" =>
        /\ piResult.defined
        /\ piAi.kind \in AiFailures =>
              piResult.value.list
                = Concat([k \in 1..Len(FallbackPatterns) |->
                    [j \in 1..Len(MatchTexts(FallbackPatterns[k].pattern,
                                             piContent)) |->
                       [text |-> MatchTexts(FallbackPatterns[k].pattern,
                                            piContent)[j],
                        reason |-> FallbackPatterns[k].reason]]])
        /\ piAi.kind = "ok" =>
              piResult.value.list
                = IF piAi.redactions.defined THEN piAi.redactions.value
                  ELSE <<>>

C21_Witness ==
    /\ piPc = "done"
    /\ piAi.kind = "notOk"
    /\ piContent = ExampleText
    /\ piResult.defined
    /\ Len(piResult.value.list) = 2

\* C24: detectPII, once called, eventually resolves, although nothing makes
\* the AI endpoint answer.
C24_DetectEventuallyReturns == <>(piPc = "done")

\* C28: for the empty text and for a text of fewer than 10 characters
\* detectPII resolves to the empty list without sending the request and
\* without running the patterns, even when a pattern matches the text.
C28_ShortTextSkipsDetection ==
    Len(piContent) < 10 =>
        /\ piPc # "awaiting"
        /\ piPc = "done" =>
              /\ piAi = NotCalled
              /\ piResult = Result([path |-> "short", list |-> <<>>])

C28_Witness ==
    /\ piPc = "done"
    /\ Len(piContent) \in 1..9
    /\ test(ipPattern, piContent)
    /\ piResult.defined
    /\ piResult.value.list = <<>>

(***************************************************************************)
(* SpecIntake: POST /api/redactions, POST /api/production-sets and         *)
(* POST /api/production-documents with their bodies as sent: each request  *)
(* goes through validateBody and then through its handler.                 *)
(***************************************************************************)
MaxAccepted == 2

\* the value a JSON body holds under a key: nothing, null, a number, a
\* string or a boolean
Missing == [kind |-> "missing", n |-> 0, s |-> <<>>]
JsonNull == [kind |-> "null", n |-> 0, s |-> <<>>]
Num(n) == [kind |-> "number", n |-> n, s |-> <<>>]
Str(s) == [kind |-> "string", n |-> 0, s |-> s]
Bool(b) == [kind |-> "boolean", n |-> IF b THEN 1 ELSE 0, s |-> <<>>]

\* a column of an insert schema: required when the column is notNull()
\* and has no default, else optional and nullable
Column(field, type, required) ==
    [field |-> field, type |-> type, required |-> required]

\* createInsertSchema(redactions).omit({ id, createdAt })
insertRedactionSchema ==
    << Column("documentId", "number", TRUE), Column("text", "string", TRUE),
       Column("reason", "string", FALSE), Column("x", "number", TRUE),
       Column("y", "number", TRUE), Column("width", "number", TRUE),
       Column("height", "number", TRUE),
       Column("pageNumber", "number", TRUE) >>

\* createInsertSchema(productionSets).omit({ id, createdAt })
insertProductionSetSchema ==
    << Column("name", "string", TRUE), Column("prefix", "string", FALSE),
       Column("startNumber", "number", FALSE),
       Column("format", "string", TRUE),
       Column("includeText", "boolean", FALSE),
       Column("includeImages", "boolean", FALSE),
       Column("includeMetadata", "boolean", FALSE),
       Column("includeNative", "boolean", FALSE),
       Column("loadFileFormat", "string", TRUE) >>

\* createInsertSchema(productionDocuments).omit({ id })
insertProductionDocumentSchema ==
    << Column("productionSetId", "number", TRUE),
       Column("documentId", "number", TRUE),
       Column("batesNumber", "string", TRUE) >>

\* a plausible slip: null passes for a required column
fieldFails_nullAccepted(column, value) ==
    IF value.kind = "missing" THEN column.required
    ELSE IF value.kind = "null" THEN FALSE
    ELSE value.kind # column.type

\* the issue schema.parse raises for one key, if any
fieldFails(column, value) ==
    IF value.kind \in {"missing", "null"} THEN column.required
    ELSE value.kind # column.type

\* error.errors: one issue per failing key, in the order of the schema
zodErrors(schema, body) ==
    LET failing == SelectSeq(schema,
                             LAMBDA column : fieldFails(column, body[column.field]))
    IN  [j \in 1..Len(failing) |-> failing[j].field]

\* storage.createRedaction(req.body): insert with the next serial id
insertRedaction(table, id, body) ==
    table \cup { [id |-> id, documentId |-> body.documentId.n,
                  text |-> body.text.s, x |-> body.x.n, y |-> body.y.n,
                  width |-> body.width.n, height |-> body.height.n,
                  pageNumber |-> body.pageNumber.n] }

IntakeResponse(op, status, errors, body, storage) ==
    Result([op |-> op, status |-> status, errors |-> errors, body |-> body,
            storage |-> storage])

\* a plausible slip: the row is inserted before the document is looked up
redactionHandler_insertFirst(docs, table, nextId, body, storage) ==
    IF storage = "lookup fails"
        THEN [status |-> 500, documents |-> docs, redactions |-> table,
              nextRedactionId |-> nextId]
    ELSE IF body.documentId.n \notin DOMAIN docs
        THEN [status |-> 404, documents |-> docs,
              redactions |-> insertRedaction(table, nextId, body),
              nextRedactionId |-> nextId + 1]
    ELSE IF storage = "insert fails"
        THEN [status |-> 500, documents |-> docs, redactions |-> table,
              nextRedactionId |-> nextId]
    ELSE IF storage = "update fails"
        THEN [status |-> 500, documents |-> docs,
              redactions |-> insertRedaction(table, nextId, body),
              nextRedactionId |-> nextId + 1]
    ELSE [status |-> 201,
          documents |-> updateDocument(docs, body.documentId.n, TRUE),
          redactions |-> insertRedaction(table, nextId, body),
          nextRedactionId |-> nextId + 1]

\* the handler of POST /api/redactions on a body that passed validateBody:
\* the status it answers and the tables it leaves.  storage tells which of
\* its three storage calls, if any, rejects.
redactionHandler(docs, table, nextId, body, storage) ==
    IF storage = "lookup fails"
        THEN [status |-> 500, documents |-> docs, redactions |-> table,
              nextRedactionId |-> nextId]
    ELSE IF body.documentId.n \notin DOMAIN docs
        THEN [status |-> 404, documents |-> docs, redactions |-> table,
              nextRedactionId |-> nextId]
    ELSE IF storage = "insert fails"
        THEN [status |-> 500, documents |-> docs, redactions |-> table,
              nextRedactionId |-> nextId]
    ELSE IF storage = "update fails"
        THEN [status |-> 500, documents |-> docs,
              redactions |-> insertRedaction(table, nextId, body),
              nextRedactionId |-> nextId + 1]
    ELSE [status |-> 201,
          documents |-> updateDocument(docs, body.documentId.n, TRUE),
          redactions |-> insertRedaction(table, nextId, body),
          nextRedactionId |-> nextId + 1]

\* validateBody(schema) in front of a handler: a body with issues is
\* answered 400 and the handler is not called
validated(errors, docs, table, nextId, handled) ==
    IF errors # <<>>
    THEN [status |-> 400, documents |-> docs, redactions |-> table,
          nextRedactionId |-> nextId]
    ELSE handled

Accepted ==
    Cardinality(redactions) + Len(productionSets) + Len(productionDocuments)

IntakeUnchanged ==
    UNCHANGED <<inflight, now, uniquePairIndex, prodResponse, batesVars,
                exportVars, viewVars, uploadVars, piiVars, pageVars>>

SettleRedaction(body, storage, outcome) ==
    /\ documents' = outcome.documents
    /\ redactions' = outcome.redactions
    /\ nextRedactionId' = outcome.nextRedactionId
    /\ lastResponse' = IntakeResponse("POST /api/redactions", outcome.status,
                           zodErrors(insertRedactionSchema, body), body,
                           storage)

\* POST /api/redactions
IntakePostRedaction(body, storage) ==
    /\ Accepted < MaxAccepted
    /\ nextRedactionId <= MaxRedactions
    /\ SettleRedaction(body, storage,
           validated(zodErrors(insertRedactionSchema, body), documents,
                     redactions, nextRedactionId,
                     redactionHandler(documents, redactions, nextRedactionId,
                                      body, storage)))
    /\ UNCHANGED <<productionSets, productionDocuments>>
    /\ IntakeUnchanged

\* the prefix column of the row: req.body.prefix, null when absent
prefixOf(body) ==
    IF body.prefix.kind = "string" THEN Some(body.prefix.s) ELSE Null

\* POST /api/production-sets
IntakePostProductionSet(body, storage) ==
    /\ Accepted < MaxAccepted
    /\ Len(productionSets) < MaxSets
    /\ IF zodErrors(insertProductionSetSchema, body) # <<>>
       THEN /\ UNCHANGED productionSets
            /\ lastResponse' = IntakeResponse("POST /api/production-sets",
                   400, zodErrors(insertProductionSetSchema, body), body,
                   storage)
       ELSE IF storage = "insert fails"
       THEN /\ UNCHANGED productionSets
            /\ lastResponse' = IntakeResponse("POST /api/production-sets",
                   500, <<>>, body, storage)
       ELSE /\ productionSets' = createProductionSet(productionSets,
                                                      prefixOf(body))
            /\ lastResponse' = IntakeResponse("POST /api/production-sets",
                   201, <<>>, body, storage)
    /\ UNCHANGED <<documents, redactions, nextRedactionId,
                   productionDocuments>>
    /\ IntakeUnchanged

\* POST /api/production-documents
IntakePostProductionDocument(body, storage) ==
    /\ Accepted < MaxAccepted
    /\ Len(productionDocuments) < MaxLinks
    /\ IF zodErrors(insertProductionDocumentSchema, body) # <<>>
       THEN /\ UNCHANGED productionDocuments
            /\ lastResponse' = IntakeResponse("POST /api/production-documents",
                   400, zodErrors(insertProductionDocumentSchema, body),
                   body, storage)
       ELSE IF storage = "lookup fails"
       THEN /\ UNCHANGED productionDocuments
            /\ lastResponse' = IntakeResponse("POST /api/production-documents",
                   500, <<>>, body, storage)
       ELSE IF ~ProductionSetExists(body.productionSetId.n)
               \/ ~DocumentExists(body.documentId.n)
       THEN /\ UNCHANGED productionDocuments
            /\ lastResponse' = IntakeResponse("POST /api/production-documents",
                   404, <<>>, body, storage)
       ELSE IF storage = "insert fails"
       THEN /\ UNCHANGED productionDocuments
            /\ lastResponse' = IntakeResponse("POST /api/production-documents",
                   500, <<>>, body, storage)
       ELSE /\ productionDocuments' =
                  addDocumentToProductionSet(productionDocuments,
                      body.productionSetId.n, body.documentId.n,
                      TimeBatesNumber(
                          productionSets[body.productionSetId.n].prefix, now))
            /\ lastResponse' = IntakeResponse("POST /api/production-documents",
                   201, <<>>, body, storage)
    /\ UNCHANGED <<documents, redactions, nextRedactionId, productionSets>>
    /\ IntakeUnchanged

\* request bodies: a well-formed one and its variations
RedactionBase ==
    [documentId |-> Num(1), text |-> Str(<<"s">>), reason |-> Missing,
     x |-> Num(10), y |-> Num(10), width |-> Num(200), height |-> Num(20),
     pageNumber |-> Num(1)]

RedactionPayloads ==
    { [RedactionBase EXCEPT !.documentId = v] :
        v \in { Num(1), Num(2), Num(MissingId), Missing } }
    \cup { [RedactionBase EXCEPT !.text = v] :
             v \in { JsonNull, Num(5) } }
    \cup { [RedactionBase EXCEPT !.reason = v] :
             v \in { JsonNull, Num(1) } }
    \cup { [RedactionBase EXCEPT !.width = v] :
             v \in { Num(0), Num(-3), Str(<<"9">>) } }
    \cup { [RedactionBase EXCEPT !.pageNumber = v] : v \in { Num(0) } }
    \cup { [RedactionBase EXCEPT !.documentId = Num(MissingId),
                                 !.text = Missing],
           [RedactionBase EXCEPT !.documentId = Num(MissingId),
                                 !.width = Num(0)],
           [RedactionBase EXCEPT !.width = Missing, !.height = JsonNull] }

ProductionSetBase ==
    [name |-> Str(<<"n">>), prefix |-> Missing, startNumber |-> Missing,
     format |-> Str(<<"p", "d", "f">>), includeText |-> Missing,
     includeImages |-> Missing, includeMetadata |-> Missing,
     includeNative |-> Missing, loadFileFormat |-> Str(<<"D", "A", "T">>)]

ProductionSetPayloads ==
    { [ProductionSetBase EXCEPT !.name = v] :
        v \in { Str(<<"n">>), Missing, JsonNull } }
    \cup { [ProductionSetBase EXCEPT !.prefix = v] :
             v \in { Str(<<"X", "_">>), Num(1) } }
    \cup { [ProductionSetBase EXCEPT !.startNumber = v] :
             v \in { Str(<<"1">>) } }
    \cup { [ProductionSetBase EXCEPT !.includeNative = v] :
             v \in { Bool(TRUE) } }
    \cup { [ProductionSetBase EXCEPT !.format = Missing,
                                     !.loadFileFormat = Bool(FALSE)] }

ProductionDocumentPayloads ==
    [productionSetId : { Num(1), Num(2), Missing },
     documentId : { Num(1), Num(MissingId) },
     batesNumber : { Str(<<>>), JsonNull }]

StorageOutcomes == {"ok", "lookup fails", "insert fails", "update fails"}

InitIntake ==
    /\ documents = [d \in DocIds |-> [isRedacted |-> FALSE]]
    /\ redactions = {}
    /\ nextRedactionId = 1
    /\ inflight = <<>>
    /\ lastResponse = NoResult
    /\ productionSets = <<>>
    /\ productionDocuments = <<>>
    /\ now = ClockStart
    /\ uniquePairIndex = FALSE
    /\ prodResponse = NoResult
    /\ IdleBates /\ IdleExport /\ IdleView /\ IdleUpload /\ IdlePii /\ IdlePage

NextIntake ==
    \/ \E body \in RedactionPayloads, storage \in StorageOutcomes :
          IntakePostRedaction(body, storage)
    \/ \E body \in ProductionSetPayloads, storage \in {"ok", "insert fails"} :
          IntakePostProductionSet(body, storage)
    \/ \E body \in ProductionDocumentPayloads,
          storage \in {"ok", "lookup fails", "insert fails"} :
          IntakePostProductionDocument(body, storage)

SpecIntake == InitIntake /\ [][NextIntake]_vars

IntakeTables ==
    <<documents, redactions, nextRedactionId, productionSets,
      productionDocuments>>

\* the schema a route validates its body against
SchemaOf(op) ==
    CASE op = "POST /api/redactions" -> insertRedactionSchema
      [] op = "POST /api/production-sets" -> insertProductionSetSchema
      [] op = "POST /api/production-documents" -> insertProductionDocumentSchema

\* a value a column accepts: one of the column's type, and for a column
\* that is not required also null or nothing
Accepts(column, value) ==
    \/ value.kind = column.type
    \/ ~column.required /\ value.kind \in {"missing", "null"}

RejectedFields(op, body) ==
    { SchemaOf(op)[k].field :
        k \in { j \in 1..Len(SchemaOf(op)) :
                  ~Accepts(SchemaOf(op)[j], body[SchemaOf(op)[j].field]) } }

\* C22: a POST /api/redactions, /api/production-sets or
\* /api/production-documents request whose body fails its schema is
\* answered 400 with one error per failing field, and leaves the
\* documents, the redactions, the production sets and the production
\* links as they were.
C22_InvalidBodyRejected ==
    [][ ( /\ lastResponse'.defined
          /\ RejectedFields(lastResponse'.value.op,
                            lastResponse'.value.body) # {} )
        => /\ lastResponse'.value.status = 400
           /\ { lastResponse'.value.errors[k] :
                  k \in 1..Len(lastResponse'.value.errors) }
                = RejectedFields(lastResponse'.value.op,
                                 lastResponse'.value.body)
           /\ Len(lastResponse'.value.errors)
                = Cardinality(RejectedFields(lastResponse'.value.op,
                                             lastResponse'.value.body))
           /\ UNCHANGED IntakeTables ]_vars

\* a body with two failing fields has been answered, after a row was stored
C22_Witness ==
    /\ lastResponse.defined
    /\ lastResponse.value.status = 400
    /\ lastResponse.value.errors = <<"width", "height">>
    /\ redactions # {}

NamesNoDocument(body) ==
    /\ body.documentId.kind = "number"
    /\ body.documentId.n \notin DOMAIN documents

MaxPending == 2
MaxApplies == 2
PageDocumentId == 1

\* the useRedaction state the handlers update
PageState(mode, pending) ==
    [isRedactionMode |-> mode, pendingRedactions |-> pending]

toggleRedactionMode(prev) ==
    PageState(~prev.isRedactionMode,
              IF prev.isRedactionMode THEN <<>> ELSE prev.pendingRedactions)

clearPendingRedactions(prev) == PageState(prev.isRedactionMode, <<>>)

addRedaction(prev, redaction) ==
    PageState(prev.isRedactionMode, Append(prev.pendingRedactions, redaction))

\* the k-th box drawn on the page: handleMouseUp adds it when it is wider
\* and higher than 5
DrawnRedaction(k) ==
    [documentId |-> PageDocumentId, text |-> <<"b", "o", "x">>,
     reason |-> <<"C">>, x |-> 10 * k, y |-> 10, width |-> 6, height |-> 6,
     pageNumber |-> 1]

\* the entry autoPIIDetection makes of the index-th candidate (from 0)
SuggestedRedaction(documentId, pii, index) ==
    [documentId |-> documentId, text |-> pii.text, reason |-> pii.reason,
     x |-> 10, y |-> 10 + index * 30, width |-> 200, height |-> 20,
     pageNumber |-> 1]

\* what a call of the async detectPII hands back at once: a promise
promiseOf(settled) == [kind |-> "promise", settled |-> settled]

\* value.map(...): only an array has map; on anything else the call throws
\* a TypeError
mapSuggestions(value, documentId) ==
    IF value.kind = "array"
    THEN Result([k \in 1..Len(value.items) |->
                    SuggestedRedaction(documentId, value.items[k], k - 1)])
    ELSE NoResult

\* autoPIIDetection after `const detectedPII = detectPII(content)`
autoPIIDetection(prev, documentId, detectedPII) ==
    IF mapSuggestions(detectedPII, documentId).defined
    THEN [thrown |-> FALSE,
          state |-> PageState(prev.isRedactionMode,
                        prev.pendingRedactions
                          \o mapSuggestions(detectedPII, documentId).value),
          returned |-> Result(Len(mapSuggestions(detectedPII,
                                                 documentId).value))]
    ELSE [thrown |-> TRUE, state |-> prev, returned |-> NoResult]

Page == PageState(pgMode, pgPending)

SetPage(state) ==
    /\ pgMode' = state.isRedactionMode
    /\ pgPending' = state.pendingRedactions

PageUnchanged ==
    UNCHANGED <<batesVars, exportVars, ledgerVars, prodVars, viewVars,
                uploadVars, piiVars>>

\* the Start Redacting button, shown while the mode is off
StartRedacting ==
    /\ ~pgMode
    /\ SetPage(toggleRedactionMode(Page))
    /\ pgEvent' = "started"
    /\ UNCHANGED <<pgAdded, pgApplies, pgRuns, pgStored, pgAuto>>
    /\ PageUnchanged

\* a box is drawn with the redaction tools, shown while the mode is on
DrawRedaction ==
    /\ pgMode
    /\ pgAdded < MaxPending
    /\ SetPage(addRedaction(Page, DrawnRedaction(pgAdded + 1)))
    /\ pgAdded' = pgAdded + 1
    /\ pgEvent' = "drawn"
    /\ UNCHANGED <<pgApplies, pgRuns, pgStored, pgAuto>>
    /\ PageUnchanged

\* handleApplyRedactions up to its first await.  With nothing pending the
\* loop is empty and the handler runs to its end at once.
ApplyClick ==
    /\ pgMode
    /\ pgApplies < MaxApplies
    /\ pgApplies' = pgApplies + 1
    /\ IF pgPending = <<>>
       THEN /\ SetPage(toggleRedactionMode(clearPendingRedactions(Page)))
            /\ pgEvent' = "applied"
            /\ UNCHANGED pgRuns
       ELSE /\ pgRuns' = Append(pgRuns, [snapshot |-> pgPending, pos |-> 1])
            /\ pgEvent' = "submitting"
            /\ UNCHANGED <<pgMode, pgPending>>
    /\ UNCHANGED <<pgAdded, pgStored, pgAuto>>
    /\ PageUnchanged

WithoutRun(runs, i) ==
    [j \in 1..(Len(runs) - 1) |-> IF j < i THEN runs[j] ELSE runs[j + 1]]

\* the awaited createRedaction call of run i is answered 201: the loop goes
\* on, and after the last entry the handler clears the list and toggles
CreateResolves(i) ==
    /\ i \in 1..Len(pgRuns)
    /\ pgStored' = Append(pgStored, pgRuns[i].snapshot[pgRuns[i].pos])
    /\ IF pgRuns[i].pos < Len(pgRuns[i].snapshot)
       THEN /\ pgRuns' = [pgRuns EXCEPT ![i].pos = @ + 1]
            /\ pgEvent' = "submitting"
            /\ UNCHANGED <<pgMode, pgPending>>
       ELSE /\ pgRuns' = WithoutRun(pgRuns, i)
            /\ SetPage(toggleRedactionMode(clearPendingRedactions(Page)))
            /\ pgEvent' = "applied"
    /\ UNCHANGED <<pgAdded, pgApplies, pgAuto>>
    /\ PageUnchanged

\* the awaited createRedaction call of run i rejects: the catch shows the
\* error toast and the handler ends
CreateRejects(i) ==
    /\ i \in 1..Len(pgRuns)
    /\ pgRuns' = WithoutRun(pgRuns, i)
    /\ pgEvent' = "apply failed"
    /\ UNCHANGED <<pgMode, pgPending, pgAdded, pgApplies, pgStored, pgAuto>>
    /\ PageUnchanged

\* handleCancelRedaction, behind the Cancel button shown while the mode is on
CancelRedaction ==
    /\ pgMode
    /\ SetPage(toggleRedactionMode(clearPendingRedactions(Page)))
    /\ pgEvent' = "cancelled"
    /\ UNCHANGED <<pgAdded, pgApplies, pgRuns, pgStored, pgAuto>>
    /\ PageUnchanged

SetAuto(content, ai, before, outcome) ==
    /\ SetPage(outcome.state)
    /\ pgAuto' = Result([content |-> content, ai |-> ai, before |-> before,
                         thrown |-> outcome.thrown,
                         returned |-> outcome.returned])

\* handleAutoPIIDetect on the selected document's content
AutoPIIDetect(content, ai) ==
    /\ pgMode
    /\ content # <<>>
    /\ SetAuto(content, ai, pgPending,
               autoPIIDetection(Page, PageDocumentId,
                                promiseOf([content |-> content, ai |-> ai])))
    /\ pgEvent' = "detected"
    /\ UNCHANGED <<pgAdded, pgApplies, pgRuns, pgStored>>
    /\ PageUnchanged

PageContents == { PhoneText, ExampleText }
PageAiOutcomes ==
    { ai \in AiOutcomes : ai.kind \in {"network", "ok"} }

InitPage ==
    /\ IdlePage
    /\ IdleBates /\ IdleExport /\ IdleLedger /\ IdleProd /\ IdleView
    /\ IdleUpload /\ IdlePii

NextPage ==
    \/ StartRedacting
    \/ DrawRedaction
    \/ ApplyClick
    \/ \E i \in 1..MaxApplies : CreateResolves(i)
    \/ \E i \in 1..MaxApplies : CreateRejects(i)
    \/ CancelRedaction
    \/ \E content \in PageContents, ai \in PageAiOutcomes :
          AutoPIIDetect(content, ai)

SpecPage == InitPage /\ [][NextPage]_vars

\* C25: no pending redaction is persisted twice, whatever Apply attempts
\* are made.
C25_PersistedAtMostOnce ==
    \A i, j \in 1..Len(pgStored) : i # j => pgStored[i] # pgStored[j]

\* the candidates detectPII resolves to for the recorded call
ProducedBy(call) == detectPII(call.content, call.ai).value.list

\* C27: after autoPIIDetection(content) the pending list is the earlier
\* list followed by one entry per candidate detectPII(content) produces,
\* in detection order, and the call returned the number of candidates.
C27_AutoDetectionAppends ==
    pgAuto.defined =>
        /\ ~pgAuto.value.thrown
        /\ pgAuto.value.returned = Result(Len(ProducedBy(pgAuto.value)))
        /\ (pgEvent = "detected" =>
              pgPending = pgAuto.value.before
                 \o [k \in 1..Len(ProducedBy(pgAuto.value)) |->
                       SuggestedRedaction(PageDocumentId,
                                          ProducedBy(pgAuto.value)[k],
                                          k - 1)])

\* C30: right after an Apply run completed or Cancel was pressed, the
\* redaction mode is off and the pending list is empty.
C30_ApplyOrCancelLeavesModeOff ==
    pgEvent \in {"applied", "cancelled"} => ~pgMode /\ pgPending = <<>>

\* the stage-1 content without its footer and the separator before it
Stage1Paragraph ==
    SubSeq(upResult.extracted, 1,
           Len(upResult.extracted)
             - Len(PdfFooter(titleOf(upReq), byteLength(upReq.file))) - 2)

====
